---------------------------- MODULE Spec2Model ----------------------------
(***************************************************************************)
(* Model of the devops-chatbot runtime resolution and lifecycle engine:    *)
(*   app/services/deploy.py   deploy_application, the four probes and the  *)
(*                            four lifecycle handlers                      *)
(*   app/services/heal.py     run_healing_tasks and its tasks              *)
(*   app/core/security.py     sanitize_input                               *)
(*   app/database/connection  get_database (the audit sink handle)         *)
(*                                                                         *)
(* Python strings are sequences of one-character strings; a few atoms      *)
(* stand for a whole text an external tool printed.                        *)
(***************************************************************************)
EXTENDS Integers, Sequences, FiniteSets, TLC

(***************************************************************************)
(* Bounds of the model.                                                    *)
(***************************************************************************)
MaxCalls == 2

None == "None"

(***************************************************************************)
(* Python str helpers.                                                     *)
(***************************************************************************)
UpperAlpha == <<"A","B","C","D","E","F","G","H","I","J","K","L","M",
                "N","O","P","Q","R","S","T","U","V","W","X","Y","Z">>

LowerAlpha == <<"a","b","c","d","e","f","g","h","i","j","k","l","m",
                "n","o","p","q","r","s","t","u","v","w","x","y","z">>

LowerChar(c) ==
    IF \E i \in 1..Len(UpperAlpha) : UpperAlpha[i] = c
    THEN LowerAlpha[CHOOSE i \in 1..Len(UpperAlpha) : UpperAlpha[i] = c]
    ELSE c

\* str.lower()
Lower(s) == [i \in 1..Len(s) |-> LowerChar(s[i])]

Whitespace == {" ", "\t", "\n", "\r"}

RECURSIVE LStrip(_)
LStrip(s) == IF s # <<>> /\ Head(s) \in Whitespace THEN LStrip(Tail(s)) ELSE s

RECURSIVE RStrip(_)
RStrip(s) ==
    IF s # <<>> /\ s[Len(s)] \in Whitespace
    THEN RStrip(SubSeq(s, 1, Len(s) - 1))
    ELSE s

\* str.strip()
Strip(s) == RStrip(LStrip(s))

\* s[:n]
Truncate(s, n) == IF Len(s) > n THEN SubSeq(s, 1, n) ELSE s

\* pat in s
Contains(s, pat) ==
    \E i \in 1..(Len(s) - Len(pat) + 1) : SubSeq(s, i, i + Len(pat) - 1) = pat

\* s.replace(pat, rep) for a non-empty pat: leftmost non-overlapping matches
RECURSIVE Replace(_, _, _)
Replace(s, pat, rep) ==
    IF Len(s) < Len(pat) THEN s
    ELSE IF SubSeq(s, 1, Len(pat)) = pat
         THEN rep \o Replace(SubSeq(s, Len(pat) + 1, Len(s)), pat, rep)
         ELSE <<Head(s)>> \o Replace(Tail(s), pat, rep)

\* s.split(sep) for a one-character sep: always at least one field
RECURSIVE Split(_, _)
Split(s, sep) ==
    IF \A i \in 1..Len(s) : s[i] # sep THEN <<s>>
    ELSE LET k == CHOOSE i \in 1..Len(s) :
                      s[i] = sep /\ \A j \in 1..(i - 1) : s[j] # sep
         IN  <<SubSeq(s, 1, k - 1)>> \o Split(SubSeq(s, k + 1, Len(s)), sep)

\* sep.join(parts)
RECURSIVE Join(_, _)
Join(parts, sep) ==
    IF parts = <<>> THEN <<>>
    ELSE IF Len(parts) = 1 THEN parts[1]
    ELSE parts[1] \o sep \o Join(Tail(parts), sep)

\* x in list
InList(x, list) == \E i \in 1..Len(list) : list[i] = x

(***************************************************************************)
(* app/core/security.py                                                    *)
(***************************************************************************)
FILTERED == <<"[","F","I","L","T","E","R","E","D","]">>

dangerous_patterns ==
    << <<"<","s","c","r","i","p","t">>,
       <<"j","a","v","a","s","c","r","i","p","t",":">>,
       <<"d","a","t","a",":">>,
       <<"v","b","s","c","r","i","p","t",":">> >>

RECURSIVE FilterPatterns(_, _)
FilterPatterns(sanitized, patterns) ==
    IF patterns = <<>> THEN sanitized
    ELSE LET pattern == Head(patterns)
             next == IF Contains(Lower(sanitized), Lower(pattern))
                     THEN Replace(sanitized, pattern, FILTERED)
                     ELSE sanitized
         IN  FilterPatterns(next, Tail(patterns))

sanitize_input(input_string, max_length) ==
    FilterPatterns(Truncate(Strip(input_string), max_length),
                   dangerous_patterns)

(***************************************************************************)
(* The host: what each backend's listing command does for the requested    *)
(* name.  started = FALSE is a tool that cannot be started                 *)
(* (create_subprocess_exec raises); listing says what stdout holds:        *)
(* "exact" a line equal to the name, "super" a line that only contains     *)
(* the name, "empty" nothing.                                              *)
(***************************************************************************)
Backends == {"docker", "compose", "systemd", "pm2"}

ProbeOutcomes ==
    { [started |-> FALSE, returncode |-> 0, listing |-> "empty"],
      [started |-> TRUE,  returncode |-> 0, listing |-> "exact"],
      [started |-> TRUE,  returncode |-> 0, listing |-> "empty"],
      [started |-> TRUE,  returncode |-> 1, listing |-> "exact"],
      [started |-> TRUE,  returncode |-> 0, listing |-> "super"] }

AllHosts == [Backends -> ProbeOutcomes]

NoHost == [b \in Backends |-> [started |-> FALSE, returncode |-> 0, listing |-> "empty"]]

\* stdout.decode() of a listing command
ProbeStdout(o, name) ==
    CASE o.listing = "exact" -> name \o <<"\n">>
      [] o.listing = "super" -> <<"x">> \o name \o <<"0", "\n">>
      [] OTHER -> <<>>

(***************************************************************************)
(* app/services/deploy.py: the four probes                                 *)
(***************************************************************************)
is_docker_container(name, o) ==
    IF ~o.started THEN FALSE
    ELSE LET containers == Split(Strip(ProbeStdout(o, name)), "\n")
         IN  InList(name, containers) /\ containers # << <<>> >>

is_docker_compose_service(name, o) ==
    IF ~o.started THEN FALSE
    ELSE o.returncode = 0 /\ Strip(ProbeStdout(o, name)) # <<>>

is_system_service(name, o) ==
    IF ~o.started THEN FALSE
    ELSE o.returncode = 0 /\ Contains(ProbeStdout(o, name), name)

is_pm2_process(name, o) ==
    IF ~o.started THEN FALSE
    ELSE o.returncode = 0 /\ Contains(ProbeStdout(o, name), name)

\* argv of each probe's command; every word is a sequence of characters
ProbeCommand(b, name) ==
    CASE b = "docker" ->
           << <<"docker">>, <<"ps">>, <<"-a">>, <<"--filter">>,
              <<"name=^">> \o name \o <<"$">>, <<"--format">>, <<"{{.Names}}">> >>
      [] b = "compose" -> << <<"docker-compose">>, <<"ps">>, <<"-q">>, name >>
      [] b = "systemd" ->
           << <<"systemctl">>, <<"list-units">>, <<"--type=service">>,
              name \o <<".service">> >>
      [] b = "pm2" -> << <<"pm2">>, <<"list">>, <<"--format">> >>

(***************************************************************************)
(* Results of a lifecycle command: it cannot be started, or it exits with  *)
(* a return code, having printed (or not) on stdout and stderr.  What a    *)
(* command prints is tagged with its verb.                                 *)
(***************************************************************************)
Verb(cmd) == IF cmd[1] = <<"sudo">> THEN cmd[3] ELSE cmd[2]

CommandResults(cmd) ==
    { [started |-> FALSE, returncode |-> 0, stdout |-> <<>>, stderr |-> <<>>],
      [started |-> TRUE, returncode |-> 0, stdout |-> <<"out:">> \o Verb(cmd), stderr |-> <<>>],
      [started |-> TRUE, returncode |-> 0, stdout |-> <<>>, stderr |-> <<>>],
      [started |-> TRUE, returncode |-> 1, stdout |-> <<>>, stderr |-> <<"err:">> \o Verb(cmd)],
      [started |-> TRUE, returncode |-> 1, stdout |-> <<"out:">> \o Verb(cmd), stderr |-> <<>>] }

\* how a started command ends, as the history of commands records it
ExitOf(r) ==
    IF ~r.started THEN "not_started"
    ELSE IF r.returncode = 0 THEN "zero" ELSE "nonzero"

Issue(cmd, exit) == [argv |-> cmd, exit |-> exit]

\* str(e) of the exception create_subprocess_exec raises for a missing tool
StartError(cmd) == <<"No such file or directory: ">> \o cmd[1]

\* str(e) of the UnboundLocalError of handle_docker_container, line 215
UnboundResult == <<"local variable 'result' referenced before assignment">>

(***************************************************************************)
(* app/services/deploy.py: the lifecycle handlers.  Each gives the command *)
(* it builds (<<>> when it builds none) and, for the result r of running   *)
(* it, the tuple it returns.                                               *)
(***************************************************************************)
Ret(success, output, error) == [success |-> success, output |-> output, error |-> error]

\* an except branch that returns an empty error text
RunAndReturn_silent_failure(cmd, r) ==
    IF ~r.started THEN Ret(FALSE, <<>>, <<>>)
    ELSE Ret(r.returncode = 0, r.stdout, r.stderr)

\* result = await create_subprocess_exec(*cmd); stdout, stderr = await
\* result.communicate(); return returncode == 0, stdout, stderr; any
\* exception gives (False, "", str(e))
RunAndReturn(cmd, r) ==
    IF ~r.started THEN Ret(FALSE, <<>>, StartError(cmd))
    ELSE Ret(r.returncode = 0, r.stdout, r.stderr)

docker_restart_cmd(name) == << <<"docker">>, <<"restart">>, name >>

docker_deploy_commands(name) ==
    << << <<"docker">>, <<"stop">>, name >>,
       << <<"docker">>, <<"pull">>, name >>,
       << <<"docker">>, <<"start">>, name >> >>

\* a compose handler that restarts the service whatever the action
compose_cmd_restart_only(name, action) ==
    << <<"docker-compose">>, <<"restart">>, name >>

compose_cmd(name, action) ==
    IF action = "restart" THEN << <<"docker-compose">>, <<"restart">>, name >>
    ELSE IF action = "deploy"
         THEN << <<"docker-compose">>, <<"up">>, <<"-d">>, <<"--force-recreate">>, name >>
         ELSE << <<"docker-compose">>, <<"restart">>, name >>

\* a system-service handler that reloads the unit on deploy
systemd_cmd_reload_on_deploy(name, action) ==
    IF action = "deploy"
    THEN << <<"sudo">>, <<"systemctl">>, <<"reload">>, name \o <<".service">> >>
    ELSE << <<"sudo">>, <<"systemctl">>, <<"restart">>, name \o <<".service">> >>

systemd_cmd(name, action) ==
    IF action = "restart"
    THEN << <<"sudo">>, <<"systemctl">>, <<"restart">>, name \o <<".service">> >>
    ELSE IF action = "deploy"
         THEN << <<"sudo">>, <<"systemctl">>, <<"restart">>, name \o <<".service">> >>
         ELSE << <<"sudo">>, <<"systemctl">>, <<"restart">>, name \o <<".service">> >>

pm2_cmd(name, action) ==
    IF action = "restart" THEN << <<"pm2">>, <<"restart">>, name >>
    ELSE IF action = "deploy" THEN << <<"pm2">>, <<"reload">>, name >>
         ELSE << <<"pm2">>, <<"restart">>, name >>

(***************************************************************************)
(* State.                                                                  *)
(*   database         mongodb.database: None or the connected database     *)
(*   deployment_logs  the deployment_logs collection, indexed by _id       *)
(*   sink_ops         every write the collection accepted, in order        *)
(*   calls            number of deploy_application calls started           *)
(*   pc, frame        each coroutine's position and local variables        *)
(*   host             the host each call runs against                      *)
(*   issued           the external commands each call has invoked, and     *)
(*                    how each ended                                       *)
(*   result           the value each call returned                         *)
(***************************************************************************)
VARIABLES database, deployment_logs, sink_ops, calls, pc, frame, host, issued, result

dvars == <<database, deployment_logs, sink_ops, calls, pc, frame, host, issued, result>>

(***************************************************************************)
(*   heal_pc       position of the run_healing_tasks call                  *)
(*   heal          its arguments and local variables                       *)
(*   heal_envs     what the host answered to each task run so far          *)
(*   heal_effects  the effects each task run so far had on the host        *)
(*   healing_logs  the healing_logs collection                             *)
(*   report        the value the call returned                             *)
(***************************************************************************)
VARIABLES heal_pc, heal, heal_envs, heal_effects, healing_logs, report

hvars == <<heal_pc, heal, heal_envs, heal_effects, healing_logs, report>>

(***************************************************************************)
(*   pure_call     the call of a function of app/core that has no state:   *)
(*                 its name, its arguments and the value it returned       *)
(***************************************************************************)
VARIABLE pure_call

(***************************************************************************)
(*   rate_limit_storage  SecurityMiddleware.rate_limit_storage: for each   *)
(*                       client IP the times of its recorded requests      *)
(*   clock               what time.time() gave last                        *)
(*   rate_log            the check_rate_limit calls made so far: client    *)
(*                       IP, time and the value returned                   *)
(***************************************************************************)
VARIABLES rate_limit_storage, clock, rate_log

rvars == <<rate_limit_storage, clock, rate_log>>

pvars == <<pure_call, rvars>>

ClientIPs == {"10.0.0.1", "10.0.0.2"}

NoCall == [fn |-> "", args |-> <<>>, ret |-> <<>>]

vars == <<dvars, hvars, pvars>>

Tasks == {"t1"}

\* the coroutines the event loop may run deploy_application in at the same
\* time; the second one stays idle where calls come one after the other
Workers == {"t1", "t2"}

DeploymentTypes == {"restart", "deploy", "rollback"}

\* the raw app_name arguments tried
RawNames == { <<" ", "w", "1">>, <<"a", "p", "i", "\n">> }

\* the same, and a name a caller typed with a command separator in it
AnyNames == RawNames \cup { <<"w", ";", "1">> }

\* the arms with the system-service probe moved to the front
strategy_chain_systemd_first == <<"systemd", "docker", "compose", "pm2">>

\* the order of the if/elif arms of deploy_application, lines 46-64
strategy_chain == <<"docker", "compose", "systemd", "pm2">>

\* the else arm forgetting to set strategy_used
StrategyName_unset_fallback(b) ==
    CASE b = "docker" -> "docker_container"
      [] b = "compose" -> "docker_compose"
      [] b = "systemd" -> "system_service"
      [] b = "pm2" -> "pm2_process"
      [] b = "fallback" -> ""

\* strategy_used as each arm sets it, lines 49, 54, 59, 64 and 69
StrategyName(b) ==
    CASE b = "docker" -> "docker_container"
      [] b = "compose" -> "docker_compose"
      [] b = "systemd" -> "system_service"
      [] b = "pm2" -> "pm2_process"
      [] b = "fallback" -> "system_service_fallback"

\* a chain that goes on to the next probe whatever a probe returned
ProbeMatches_ignored(b, name, o) == FALSE

ProbeMatches(b, name, o) ==
    CASE b = "docker" -> is_docker_container(name, o)
      [] b = "compose" -> is_docker_compose_service(name, o)
      [] b = "systemd" -> is_system_service(name, o)
      [] b = "pm2" -> is_pm2_process(name, o)

NoResult == [pending |-> TRUE]

EmptyFrame ==
    [ app_name |-> <<>>, deployment_type |-> "restart", call |-> 0,
      db |-> None, log_id |-> 0,
      arm |-> 1, branch |-> "",
      success |-> FALSE, output |-> <<>>, error |-> <<>>, strategy_used |-> "",
      step |-> 1, combined_output |-> <<>>, combined_error |-> <<>>,
      raised |-> <<>> ]

DeployInit ==
    /\ database \in {None, "db"}
    /\ deployment_logs = <<>>
    /\ sink_ops = <<>>
    /\ calls = 0
    /\ pc = [t \in Workers |-> "idle"]
    /\ frame = [t \in Workers |-> EmptyFrame]
    /\ host = [t \in Workers |-> NoHost]
    /\ issued = [t \in Workers |-> <<>>]
    /\ result = [t \in Workers |-> NoResult]

HealInit ==
    /\ heal_pc = "idle"
    /\ heal = [ given |-> FALSE, tasks |-> <<>>, i |-> 1, results |-> <<>>,
                overall_success |-> TRUE ]
    /\ heal_envs = <<>>
    /\ heal_effects = <<>>
    /\ healing_logs = <<>>
    /\ report = NoResult

\* SecurityMiddleware.__init__, lines 100-102; a client IP with no list
\* yet is one with the empty list, which line 111 gives it on its first call
PureInit ==
    /\ pure_call = NoCall
    /\ rate_limit_storage = [ip \in ClientIPs |-> <<>>]
    /\ clock = 0
    /\ rate_log = <<>>

Init == DeployInit /\ HealInit /\ PureInit

\* exceptions: a class and the text str(e) gives
Exc(class, text) == [class |-> class, text |-> text]

\* an except clause that names one class only
Caught_ValueError_only(e) == e.class = "ValueError"

\* the classes "except Exception" catches: every one the steps raise
\* derives from Exception
Caught(e) == e.class \in {"Exception", "PyMongoError", "OSError", "UnboundLocalError"}

\* the dict the except branch of deploy_application returns, lines 114-120
ExceptionResult(app_name, e) ==
    [ success |-> FALSE, app_name |-> app_name,
      message |-> <<"Deployment failed with exception: ">> \o e.text,
      error |-> e.text ]

\* a step of deploy_application inside the try block raises e, lines
\* 21 and 112-120: the call returns the except branch's dict when the
\* clause catches e, and the exception leaves the call otherwise
Raise(t, f, e) ==
    /\ frame' = [frame EXCEPT ![t] = [f EXCEPT !.raised = e.text]]
    /\ result' = [result EXCEPT ![t] =
           IF Caught(e) THEN ExceptionResult(f.app_name, e) ELSE NoResult]
    /\ pc' = [pc EXCEPT ![t] = IF Caught(e) THEN "done" ELSE "propagated"]

\* deploy_application, lines 12-31: a call starts
StartCall(t, hosts, names) ==
    /\ pc[t] \in {"idle", "done"}
    /\ \E raw \in names, deployment_type \in DeploymentTypes, h \in hosts :
          /\ frame' = [frame EXCEPT ![t] =
                 [EmptyFrame EXCEPT !.app_name = sanitize_input(raw, 50),
                                    !.deployment_type = deployment_type,
                                    !.call = calls + 1]]
          /\ host' = [host EXCEPT ![t] = h]
    /\ calls' = calls + 1
    /\ pc' = [pc EXCEPT ![t] = "store_log"]
    /\ issued' = [issued EXCEPT ![t] = <<>>]
    /\ result' = [result EXCEPT ![t] = NoResult]
    /\ UNCHANGED <<database, deployment_logs, sink_ops>>
    /\ UNCHANGED <<hvars, pvars>>

\* deploy_application, lines 33-38: db = get_database(); insert the
\* in_progress entry when there is a database.  A sink that raises sends
\* the call to the except branch.
StoreLog(t) ==
    /\ pc[t] = "store_log"
    /\ LET f == frame[t]
           db == database
       IN  IF db = None
           THEN /\ frame' = [frame EXCEPT ![t].db = db, ![t].log_id = 0]
                /\ pc' = [pc EXCEPT ![t] = "probe"]
                /\ UNCHANGED <<deployment_logs, sink_ops, result>>
           ELSE \E ok \in BOOLEAN :
                  IF ok
                  THEN LET id == Len(deployment_logs) + 1
                       IN  /\ deployment_logs' = Append(deployment_logs,
                                  [ app_name |-> f.app_name,
                                    command |-> f.deployment_type,
                                    status |-> "in_progress",
                                    strategy_used |-> "" ])
                           /\ sink_ops' = Append(sink_ops,
                                  [op |-> "insert", id |-> id, call |-> f.call,
                                   status |-> "in_progress"])
                           /\ frame' = [frame EXCEPT ![t].db = db, ![t].log_id = id]
                           /\ pc' = [pc EXCEPT ![t] = "probe"]
                           /\ UNCHANGED result
                  ELSE /\ Raise(t, [f EXCEPT !.db = db],
                             Exc("PyMongoError", <<"insert_one failed">>))
                       /\ UNCHANGED <<deployment_logs, sink_ops>>
    /\ UNCHANGED <<database, calls, host, issued>>
    /\ UNCHANGED <<hvars, pvars>>

\* deploy_application, lines 46-69: the next probe of the chain runs; a
\* match selects that arm, the last miss selects the fallback arm.  A
\* listing command that never exits blocks the call for ever.
Probe(t) ==
    /\ pc[t] = "probe"
    /\ LET f == frame[t]
           b == strategy_chain[f.arm]
           cmd == ProbeCommand(b, f.app_name)
           ran == Issue(cmd, ExitOf(host[t][b]))
       IN  \/ /\ ProbeMatches(b, f.app_name, host[t][b])
              /\ issued' = [issued EXCEPT ![t] = Append(@, ran)]
              /\ frame' = [frame EXCEPT ![t].branch = b]
              /\ pc' = [pc EXCEPT ![t] = "handle"]
           \/ /\ ~ProbeMatches(b, f.app_name, host[t][b])
              /\ f.arm < Len(strategy_chain)
              /\ issued' = [issued EXCEPT ![t] = Append(@, ran)]
              /\ frame' = [frame EXCEPT ![t].arm = f.arm + 1]
              /\ pc' = [pc EXCEPT ![t] = "probe"]
           \/ /\ ~ProbeMatches(b, f.app_name, host[t][b])
              /\ f.arm = Len(strategy_chain)
              /\ issued' = [issued EXCEPT ![t] = Append(@, ran)]
              /\ frame' = [frame EXCEPT ![t].branch = "fallback"]
              /\ pc' = [pc EXCEPT ![t] = "handle"]
           \/ /\ host[t][b].started
              /\ issued' = [issued EXCEPT ![t] = Append(@, Issue(cmd, "never"))]
              /\ frame' = frame
              /\ pc' = [pc EXCEPT ![t] = "blocked"]
    /\ UNCHANGED <<database, deployment_logs, sink_ops, calls, host, result>>
    /\ UNCHANGED <<hvars, pvars>>

handle_docker_compose_service(name, action, r) ==
    RunAndReturn(compose_cmd(name, action), r)

handle_system_service(name, action, r) ==
    RunAndReturn(systemd_cmd(name, action), r)

handle_pm2_process(name, action, r) ==
    RunAndReturn(pm2_cmd(name, action), r)

\* handle_docker_container for an action other than "deploy": "restart"
\* runs docker restart; any other action reaches line 215 with no result
\* bound, and the except branch returns the UnboundLocalError
handle_docker_container(name, action, r) ==
    IF action = "restart" THEN RunAndReturn(docker_restart_cmd(name), r)
    ELSE Ret(FALSE, <<>>, UnboundResult)

\* the command the handler of an arm builds, <<>> when it builds none
HandlerCommand(branch, name, action) ==
    CASE branch = "docker" ->
           IF action = "restart" THEN docker_restart_cmd(name) ELSE <<>>
      [] branch = "compose" -> compose_cmd(name, action)
      [] branch = "systemd" -> systemd_cmd(name, action)
      [] branch = "pm2" -> pm2_cmd(name, action)
      [] branch = "fallback" -> systemd_cmd(name, action)

HandlerReturn(branch, name, action, r) ==
    CASE branch = "docker" -> handle_docker_container(name, action, r)
      [] branch = "compose" -> handle_docker_compose_service(name, action, r)
      [] branch = "systemd" -> handle_system_service(name, action, r)
      [] branch = "pm2" -> handle_pm2_process(name, action, r)
      [] branch = "fallback" -> handle_system_service(name, action, r)

\* success, output, error = await handle_...(); strategy_used = ...
Returned(f, ret) ==
    [f EXCEPT !.success = ret.success, !.output = ret.output,
              !.error = ret.error, !.strategy_used = StrategyName(f.branch)]

\* deploy_application, lines 48-69, for every handler call but the
\* container deploy: the handler runs its one command and returns.  A
\* command that never exits blocks the call for ever.
Handle(t) ==
    /\ pc[t] = "handle"
    /\ LET f == frame[t]
           cmd == HandlerCommand(f.branch, f.app_name, f.deployment_type)
       IN  /\ ~(f.branch = "docker" /\ f.deployment_type = "deploy")
           /\ IF cmd = <<>>
              THEN /\ frame' = [frame EXCEPT ![t] =
                         Returned(f, HandlerReturn(f.branch, f.app_name,
                                                   f.deployment_type, NoResult))]
                   /\ pc' = [pc EXCEPT ![t] = "update_log"]
                   /\ UNCHANGED issued
              ELSE \/ \E r \in CommandResults(cmd) :
                        /\ issued' = [issued EXCEPT ![t] = Append(@, Issue(cmd, ExitOf(r)))]
                        /\ frame' = [frame EXCEPT ![t] =
                              Returned(f, HandlerReturn(f.branch, f.app_name,
                                                        f.deployment_type, r))]
                        /\ pc' = [pc EXCEPT ![t] = "update_log"]
                   \/ /\ issued' = [issued EXCEPT ![t] = Append(@, Issue(cmd, "never"))]
                      /\ frame' = frame
                      /\ pc' = [pc EXCEPT ![t] = "blocked"]
    /\ UNCHANGED <<database, deployment_logs, sink_ops, calls, host, result>>
    /\ UNCHANGED <<hvars, pvars>>

\* the loop without the returncode check of line 210
docker_deploy_turn_unchecked(name, step, combined_output, combined_error, r) ==
    LET commands == docker_deploy_commands(name)
        cmd == commands[step]
        out == Append(combined_output, r.stdout)
        err == Append(combined_error, r.stderr)
    IN  IF ~r.started
        THEN [ returns |-> TRUE, ret |-> Ret(FALSE, <<>>, StartError(cmd)),
               combined_output |-> combined_output, combined_error |-> combined_error ]
        ELSE IF step = Len(commands)
        THEN [ returns |-> TRUE,
               ret |-> Ret(TRUE, Join(out, <<"\n">>), Join(err, <<"\n">>)),
               combined_output |-> out, combined_error |-> err ]
        ELSE [ returns |-> FALSE, ret |-> Ret(FALSE, <<>>, <<>>),
               combined_output |-> out, combined_error |-> err ]

\* one turn of the loop of handle_docker_container, lines 200-213, on the
\* command at position step with result r: the loop variables afterwards
\* and, when the handler returns in this turn, what it returns
docker_deploy_turn(name, step, combined_output, combined_error, r) ==
    LET commands == docker_deploy_commands(name)
        cmd == commands[step]
        out == Append(combined_output, r.stdout)
        err == Append(combined_error, r.stderr)
    IN  IF ~r.started
        THEN [ returns |-> TRUE, ret |-> Ret(FALSE, <<>>, StartError(cmd)),
               combined_output |-> combined_output, combined_error |-> combined_error ]
        ELSE IF r.returncode # 0
        THEN [ returns |-> TRUE,
               ret |-> Ret(FALSE, Join(out, <<"\n">>), Join(err, <<"\n">>)),
               combined_output |-> out, combined_error |-> err ]
        ELSE IF step = Len(commands)
        THEN [ returns |-> TRUE,
               ret |-> Ret(TRUE, Join(out, <<"\n">>), Join(err, <<"\n">>)),
               combined_output |-> out, combined_error |-> err ]
        ELSE [ returns |-> FALSE, ret |-> Ret(FALSE, <<>>, <<>>),
               combined_output |-> out, combined_error |-> err ]

\* handle_docker_container with action "deploy": the next of stop, pull,
\* start runs
DockerDeployStep(t) ==
    /\ pc[t] = "handle"
    /\ LET f == frame[t]
           cmd == docker_deploy_commands(f.app_name)[f.step]
       IN  /\ f.branch = "docker" /\ f.deployment_type = "deploy"
           /\ \/ \E r \in CommandResults(cmd) :
                   LET turn == docker_deploy_turn(f.app_name, f.step,
                                   f.combined_output, f.combined_error, r)
                       g == [f EXCEPT !.combined_output = turn.combined_output,
                                      !.combined_error = turn.combined_error]
                   IN  /\ issued' = [issued EXCEPT ![t] = Append(@, Issue(cmd, ExitOf(r)))]
                       /\ IF turn.returns
                          THEN /\ frame' = [frame EXCEPT ![t] = Returned(g, turn.ret)]
                               /\ pc' = [pc EXCEPT ![t] = "update_log"]
                          ELSE /\ frame' = [frame EXCEPT ![t] = [g EXCEPT !.step = f.step + 1]]
                               /\ pc' = pc
              \/ /\ issued' = [issued EXCEPT ![t] = Append(@, Issue(cmd, "never"))]
                 /\ frame' = frame
                 /\ pc' = [pc EXCEPT ![t] = "blocked"]
    /\ UNCHANGED <<database, deployment_logs, sink_ops, calls, host, result>>
    /\ UNCHANGED <<hvars, pvars>>

\* the longest output or error text a result carries, lines 105 and 108
OutputLimit == 500

\* deploy_application, lines 94-110
BuildResult(f) ==
    IF f.success
    THEN [ success |-> f.success, app_name |-> f.app_name,
           strategy_used |-> f.strategy_used,
           message |-> <<"Successfully ", f.deployment_type, "ed ">> \o f.app_name
                         \o <<" using ", f.strategy_used>>,
           output |-> IF f.output # <<>> THEN Truncate(f.output, OutputLimit)
                      ELSE <<"No output">> ]
    ELSE [ success |-> f.success, app_name |-> f.app_name,
           strategy_used |-> f.strategy_used,
           message |-> <<"Failed to ", f.deployment_type, " ">> \o f.app_name,
           error |-> IF f.error # <<>> THEN Truncate(f.error, OutputLimit)
                     ELSE <<"Unknown error">> ]

\* a status that does not look at the outcome
StatusOf_always_success(success) == "success"

\* status = "success" if success else "failed", line 76
StatusOf(success) == IF success THEN "success" ELSE "failed"

\* a filter that names the first entry of the collection
UpdateFilter_first_entry(f) == 1

\* the _id the update_one filter names, line 79
UpdateFilter(f) == f.log_id

\* deploy_application, lines 71-110: the entry is updated when there is a
\* database and a log id, and the result is built and returned.  A sink
\* that raises sends the call to the except branch.
UpdateLog(t) ==
    /\ pc[t] = "update_log"
    /\ LET f == frame[t]
           status == StatusOf(f.success)
       IN  IF f.db # None /\ f.log_id # 0
           THEN \E ok \in BOOLEAN :
                  IF ok
                  THEN /\ deployment_logs' = [deployment_logs EXCEPT ![UpdateFilter(f)] =
                              [@ EXCEPT !.status = status,
                                        !.strategy_used = f.strategy_used]]
                       /\ sink_ops' = Append(sink_ops,
                              [op |-> "update", id |-> UpdateFilter(f), call |-> f.call,
                               status |-> status])
                       /\ result' = [result EXCEPT ![t] = BuildResult(f)]
                       /\ pc' = [pc EXCEPT ![t] = "done"]
                       /\ UNCHANGED frame
                  ELSE /\ Raise(t, f, Exc("PyMongoError", <<"update_one failed">>))
                       /\ UNCHANGED <<deployment_logs, sink_ops>>
           ELSE /\ result' = [result EXCEPT ![t] = BuildResult(f)]
                /\ pc' = [pc EXCEPT ![t] = "done"]
                /\ UNCHANGED <<deployment_logs, sink_ops, frame>>
    /\ UNCHANGED <<database, calls, host, issued>>
    /\ UNCHANGED <<hvars, pvars>>

\* the hosts of the audit specification: exactly one backend lists the
\* name, or none does
Listed == [started |-> TRUE, returncode |-> 0, listing |-> "exact"]

NotListed == [started |-> TRUE, returncode |-> 0, listing |-> "empty"]

FixtureHosts ==
    { [b \in Backends |-> IF b = only THEN Listed ELSE NotListed] :
          only \in {"docker", "pm2", "none"} }

\* one call of deploy_application, on any host
StartAny(t) == calls = 0 /\ StartCall(t, AllHosts, AnyNames)

\* the name the sequences of calls are tried with
AuditNames == { <<" ", "w", "1">> }

\* up to MaxCalls calls of deploy_application, one after the other
StartNext(t) == calls < MaxCalls /\ StartCall(t, FixtureHosts, AuditNames)

Next ==
    \E t \in Tasks :
        \/ StartAny(t)
        \/ StoreLog(t)
        \/ Probe(t)
        \/ Handle(t)
        \/ DockerDeployStep(t)
        \/ UpdateLog(t)

Spec == Init /\ [][Next]_vars

NextAudit ==
    \E t \in Tasks :
        \/ StartNext(t)
        \/ StoreLog(t)
        \/ Probe(t)
        \/ Handle(t)
        \/ DockerDeployStep(t)
        \/ UpdateLog(t)

SpecAudit == Init /\ [][NextAudit]_vars

\* two calls of deploy_application running at the same time: each worker
\* starts one call, and the steps of the two interleave at every await
StartPair(t) == pc[t] = "idle" /\ StartCall(t, FixtureHosts, AuditNames)

NextPair ==
    \E t \in Workers :
        \/ StartPair(t)
        \/ StoreLog(t)
        \/ Probe(t)
        \/ Handle(t)
        \/ DockerDeployStep(t)
        \/ UpdateLog(t)

SpecPair == Init /\ [][NextPair]_vars

(***************************************************************************)
(* app/services/heal.py: the healing tasks.  Each task is a function of    *)
(* what the host answers; it gives the dict the task returns and the       *)
(* effects it had on the host (commands invoked, files removed).           *)
(***************************************************************************)
Outcome(value, effects) == [value |-> value, effects |-> effects]

default_services ==
    << <<"nginx">>, <<"apache2">>, <<"mysql">>, <<"postgresql">>,
       <<"redis-server">>, <<"mongodb">> >>

is_active_cmd(service) ==
    << <<"systemctl">>, <<"is-active">>, service \o <<".service">> >>

restart_service_cmd(service) ==
    << <<"sudo">>, <<"systemctl">>, <<"restart">>, service \o <<".service">> >>

\* a test that takes only the status failed for a reason to restart
needs_restart_failed_only(status) == status = <<"failed">>

\* status in ['failed', 'inactive'], line 99
needs_restart(status) == status \in {<<"failed">>, <<"inactive">>}

\* the loop of restart_failed_services, lines 87-129, over the services
\* left; env gives, for each service, the result of its status query and
\* of its restart.  raised says that a command could not be started.
RECURSIVE restart_services_loop(_, _, _, _, _)
restart_services_loop(services, env, results, services_restarted, effects) ==
    IF services = <<>>
    THEN [ raised |-> FALSE, error |-> <<>>, results |-> results,
           services_restarted |-> services_restarted, effects |-> effects ]
    ELSE LET service == sanitize_input(Head(services), 30)
             e == env[Head(services)]
             check == is_active_cmd(service)
             restart == restart_service_cmd(service)
             status == Strip(e.check.stdout)
         IN  IF ~e.check.started
             THEN [ raised |-> TRUE, error |-> StartError(check), results |-> results,
                    services_restarted |-> services_restarted,
                    effects |-> Append(effects, Issue(check, "not_started")) ]
             ELSE IF needs_restart(status)
             THEN IF ~e.restart.started
                  THEN [ raised |-> TRUE, error |-> StartError(restart),
                         results |-> results,
                         services_restarted |-> services_restarted,
                         effects |-> effects \o << Issue(check, ExitOf(e.check)),
                                                   Issue(restart, "not_started") >> ]
                  ELSE IF e.restart.returncode = 0
                  THEN restart_services_loop(Tail(services), env,
                           Append(results,
                                  [ service |-> service, action |-> "restarted",
                                    success |-> TRUE, previous_status |-> status ]),
                           services_restarted + 1,
                           effects \o << Issue(check, ExitOf(e.check)),
                                         Issue(restart, ExitOf(e.restart)) >>)
                  ELSE restart_services_loop(Tail(services), env,
                           Append(results,
                                  [ service |-> service, action |-> "restart_failed",
                                    success |-> FALSE,
                                    error |-> Strip(e.restart.stderr) ]),
                           services_restarted,
                           effects \o << Issue(check, ExitOf(e.check)),
                                         Issue(restart, ExitOf(e.restart)) >>)
             ELSE restart_services_loop(Tail(services), env,
                      Append(results,
                             [ service |-> service, action |-> "no_action_needed",
                               success |-> TRUE, status |-> status ]),
                      services_restarted,
                      Append(effects, Issue(check, ExitOf(e.check))))

\* a task that fails as soon as one restart exits non-zero
restart_failed_services_strict(services, env) ==
    LET run == restart_services_loop(services, env, <<>>, 0, <<>>)
    IN  IF run.raised \/ \E i \in 1..Len(run.results) : ~run.results[i].success
        THEN Outcome([ task |-> "restart_failed_services", success |-> FALSE,
                       error |-> run.error, details |-> run.results ],
                     run.effects)
        ELSE Outcome([ task |-> "restart_failed_services", success |-> TRUE,
                       services_restarted |-> run.services_restarted,
                       total_services_checked |-> Len(services),
                       details |-> run.results ],
                     run.effects)

restart_failed_services(services, env) ==
    LET run == restart_services_loop(services, env, <<>>, 0, <<>>)
    IN  IF run.raised
        THEN Outcome([ task |-> "restart_failed_services", success |-> FALSE,
                       error |-> run.error, details |-> run.results ],
                     run.effects)
        ELSE Outcome([ task |-> "restart_failed_services", success |-> TRUE,
                       services_restarted |-> run.services_restarted,
                       total_services_checked |-> Len(services),
                       details |-> run.results ],
                     run.effects)

MiB == 1048576

\* round(a / b, 2) in hundredths, ties to even
Round2(a, b) ==
    LET n == (a % b) * 100
        q == (a \div b) * 100 + (n \div b)
        r == n % b
    IN  IF 2 * r < b THEN q
        ELSE IF 2 * r > b THEN q + 1
        ELSE IF q % 2 = 0 THEN q ELSE q + 1

EndsWith(name, suffix) ==
    Len(name) >= Len(suffix)
    /\ SubSeq(name, Len(name) - Len(suffix) + 1, Len(name)) = suffix

StartsWith(name, prefix) ==
    Len(name) >= Len(prefix) /\ SubSeq(name, 1, Len(prefix)) = prefix

\* the age, in seconds, past which a log file is removed, line 231
LogMaxAge == 7 * 24 * 3600

\* a test that takes every log file, whatever its age
qualifies_any_log(file) ==
    \/ EndsWith(file.name, <<".log">>)
    \/ StartsWith(file.name, <<"tmp">>)
    \/ EndsWith(file.name, <<".tmp">>)

\* the tests of lines 230-231 and 237 on a regular file
qualifies(file) ==
    \/ EndsWith(file.name, <<".log">>) /\ file.age > LogMaxAge
    \/ StartsWith(file.name, <<"tmp">>)
    \/ EndsWith(file.name, <<".tmp">>)

\* clean_directory, lines 225-240, over the entries left: a file is a
\* record of its name, whether it is a regular file, its age and size, and
\* whether os.remove succeeds on it.  An entry that cannot be removed ends
\* the loop (line 242).
RECURSIVE clean_directory_loop(_, _, _, _)
clean_directory_loop(directory, files, cleaned_bytes, effects) ==
    IF files = <<>> THEN [cleaned_bytes |-> cleaned_bytes, effects |-> effects]
    ELSE LET file == Head(files)
         IN  IF file.isfile /\ qualifies(file)
             THEN IF file.removable
                  THEN clean_directory_loop(directory, Tail(files),
                           cleaned_bytes + file.size,
                           Append(effects, [remove |-> <<directory, file.name>>]))
                  ELSE [cleaned_bytes |-> cleaned_bytes, effects |-> effects]
             ELSE clean_directory_loop(directory, Tail(files), cleaned_bytes, effects)

\* clean_directory: d says whether os.listdir works and what it lists
clean_directory(directory, d) ==
    IF ~d.listable THEN [cleaned_bytes |-> 0, effects |-> <<>>]
    ELSE clean_directory_loop(directory, d.files, 0, <<>>)

docker_prune_cmd == << <<"docker">>, <<"system">>, <<"prune">>, <<"-f">> >>

\* a prune whose reclaimed space is not counted
clean_docker_resources_uncounted(r) ==
    [ cleaned_bytes |-> 0, effects |-> << Issue(docker_prune_cmd, ExitOf(r)) >> ]

\* clean_docker_resources, lines 247-270
clean_docker_resources(r) ==
    [ cleaned_bytes |->
          IF r.started /\ r.returncode = 0
             /\ Contains(r.stdout, <<"Total reclaimed space">>)
          THEN 100 * 1024 * 1024 ELSE 0,
      effects |-> << Issue(docker_prune_cmd, ExitOf(r)) >> ]

apt_clean_cmd == << <<"sudo">>, <<"apt-get">>, <<"clean">> >>

yum_clean_cmd == << <<"sudo">>, <<"yum">>, <<"clean">>, <<"all">> >>

\* a cache clean counted whatever apt-get exited with
clean_package_cache_any_exit(apt, yum) ==
    IF apt.started
    THEN [ cleaned_bytes |-> 50 * 1024 * 1024,
           effects |-> << Issue(apt_clean_cmd, ExitOf(apt)) >> ]
    ELSE [ cleaned_bytes |->
               IF yum.started /\ yum.returncode = 0 THEN 50 * 1024 * 1024 ELSE 0,
           effects |-> << Issue(apt_clean_cmd, "not_started"),
                          Issue(yum_clean_cmd, ExitOf(yum)) >> ]

\* clean_package_cache, lines 272-304: yum is tried only when apt-get
\* cannot be started
clean_package_cache(apt, yum) ==
    IF apt.started
    THEN [ cleaned_bytes |-> IF apt.returncode = 0 THEN 50 * 1024 * 1024 ELSE 0,
           effects |-> << Issue(apt_clean_cmd, ExitOf(apt)) >> ]
    ELSE [ cleaned_bytes |->
               IF yum.started /\ yum.returncode = 0 THEN 50 * 1024 * 1024 ELSE 0,
           effects |-> << Issue(apt_clean_cmd, "not_started"),
                          Issue(yum_clean_cmd, ExitOf(yum)) >> ]

temp_dirs == << <<"/tmp">>, <<"/var/tmp">>, <<"/var/log">> >>

\* the loop over temp_dirs of clean_disk_space, lines 170-179
RECURSIVE clean_temp_dirs(_, _, _, _, _)
clean_temp_dirs(dirs, env, cleaned_bytes, actions_taken, effects) ==
    IF dirs = <<>>
    THEN [ cleaned_bytes |-> cleaned_bytes, actions_taken |-> actions_taken,
           effects |-> effects ]
    ELSE LET temp_dir == Head(dirs)
             d == env[temp_dir]
         IN  IF ~d.exists
             THEN clean_temp_dirs(Tail(dirs), env, cleaned_bytes, actions_taken, effects)
             ELSE LET c == clean_directory(temp_dir, d)
                  IN  clean_temp_dirs(Tail(dirs), env,
                          cleaned_bytes + c.cleaned_bytes,
                          IF c.cleaned_bytes > 0
                          THEN Append(actions_taken,
                                      [cleaned |-> temp_dir, bytes |-> c.cleaned_bytes])
                          ELSE actions_taken,
                          effects \o c.effects)

\* clean_disk_space, lines 148-218.  env.usage and env.final are what
\* psutil.disk_usage('/') gives before and after (raises when it fails).
clean_disk_space(threshold_percent, env) ==
    IF env.usage.raises
    THEN Outcome([ task |-> "clean_disk_space", success |-> FALSE,
                   error |-> <<"disk_usage failed">> ], <<>>)
    ELSE IF env.usage.used * 100 < threshold_percent * env.usage.total
    THEN Outcome([ task |-> "clean_disk_space", success |-> TRUE,
                   action |-> "no_cleanup_needed",
                   current_usage |-> Round2(env.usage.used * 100, env.usage.total),
                   threshold |-> threshold_percent ], <<>>)
    ELSE LET dirs == clean_temp_dirs(temp_dirs, env.dirs, 0, <<>>, <<>>)
             docker == clean_docker_resources(env.docker)
             cache == clean_package_cache(env.apt, env.yum)
             cleaned_bytes == dirs.cleaned_bytes + docker.cleaned_bytes
                                + cache.cleaned_bytes
             actions_taken ==
                 dirs.actions_taken
                 \o (IF docker.cleaned_bytes > 0
                     THEN << [cleaned |-> <<"Docker resources">>,
                              bytes |-> docker.cleaned_bytes] >> ELSE <<>>)
                 \o (IF cache.cleaned_bytes > 0
                     THEN << [cleaned |-> <<"package cache">>,
                              bytes |-> cache.cleaned_bytes] >> ELSE <<>>)
             effects == dirs.effects \o docker.effects \o cache.effects
         IN  IF env.final.raises
             THEN Outcome([ task |-> "clean_disk_space", success |-> FALSE,
                            error |-> <<"disk_usage failed">> ], effects)
             ELSE Outcome([ task |-> "clean_disk_space", success |-> TRUE,
                            initial_usage_percent |->
                                Round2(env.usage.used * 100, env.usage.total),
                            final_usage_percent |->
                                Round2(env.final.used * 100, env.final.total),
                            cleaned_mb |-> Round2(cleaned_bytes, MiB),
                            actions_taken |-> actions_taken ], effects)

\* the processes above 10% of memory, in process_iter order, lines 324-329;
\* a process whose memory_percent cannot be read (None) makes the
\* comparison raise a TypeError
RECURSIVE high_memory(_)
high_memory(procs) ==
    IF procs = <<>> THEN <<>>
    ELSE IF Head(procs).memory_percent > 10
         THEN <<Head(procs)>> \o high_memory(Tail(procs))
         ELSE high_memory(Tail(procs))

\* list.sort(key=memory_percent, reverse=True): stable, descending
RECURSIVE insert_desc(_, _)
insert_desc(sorted, p) ==
    IF sorted = <<>> THEN <<p>>
    ELSE IF Head(sorted).memory_percent >= p.memory_percent
         THEN <<Head(sorted)>> \o insert_desc(Tail(sorted), p)
         ELSE <<p>> \o sorted

RECURSIVE sort_desc(_)
sort_desc(procs) ==
    IF procs = <<>> THEN <<>>
    ELSE insert_desc(sort_desc(SubSeq(procs, 1, Len(procs) - 1)), procs[Len(procs)])

\* a task that keeps the first five processes found and sorts those
check_memory_usage_first_five(threshold_percent, env) ==
    IF env.raises
    THEN Outcome([ task |-> "check_memory_usage", success |-> FALSE,
                   error |-> <<"virtual_memory failed">> ], <<>>)
    ELSE IF env.percent < threshold_percent
    THEN Outcome([ task |-> "check_memory_usage", success |-> TRUE,
                   action |-> "no_action_needed",
                   current_usage |-> env.percent,
                   threshold |-> threshold_percent ], <<>>)
    ELSE IF \E i \in 1..Len(env.procs) : ~env.procs[i].readable
    THEN Outcome([ task |-> "check_memory_usage", success |-> FALSE,
                   error |-> <<"'>' not supported between 'NoneType' and 'int'">> ],
                 <<>>)
    ELSE Outcome([ task |-> "check_memory_usage", success |-> TRUE,
                   current_usage |-> env.percent,
                   threshold |-> threshold_percent,
                   high_memory_processes |->
                       sort_desc(Truncate(high_memory(env.procs), 5)),
                   action |-> "identified_high_memory_processes" ], <<>>)

\* check_memory_usage, lines 306-349
check_memory_usage(threshold_percent, env) ==
    IF env.raises
    THEN Outcome([ task |-> "check_memory_usage", success |-> FALSE,
                   error |-> <<"virtual_memory failed">> ], <<>>)
    ELSE IF env.percent < threshold_percent
    THEN Outcome([ task |-> "check_memory_usage", success |-> TRUE,
                   action |-> "no_action_needed",
                   current_usage |-> env.percent,
                   threshold |-> threshold_percent ], <<>>)
    ELSE IF \E i \in 1..Len(env.procs) : ~env.procs[i].readable
    THEN Outcome([ task |-> "check_memory_usage", success |-> FALSE,
                   error |-> <<"'>' not supported between 'NoneType' and 'int'">> ],
                 <<>>)
    ELSE Outcome([ task |-> "check_memory_usage", success |-> TRUE,
                   current_usage |-> env.percent,
                   threshold |-> threshold_percent,
                   high_memory_processes |->
                       Truncate(sort_desc(high_memory(env.procs)), 5),
                   action |-> "identified_high_memory_processes" ], <<>>)

RECURSIVE hanging(_)
hanging(procs) ==
    IF procs = <<>> THEN <<>>
    ELSE IF Head(procs).status \in {"zombie", "disk-sleep"}
         THEN <<Head(procs)>> \o hanging(Tail(procs))
         ELSE hanging(Tail(procs))

\* a task that kills the processes it finds hanging
restart_hanging_processes_kills(env) ==
    IF env.raises
    THEN Outcome([ task |-> "restart_hanging_processes", success |-> FALSE,
                   error |-> <<"process_iter failed">> ], <<>>)
    ELSE Outcome([ task |-> "restart_hanging_processes", success |-> TRUE,
                   hanging_processes_found |-> Len(hanging(env.procs)),
                   processes |-> hanging(env.procs),
                   action |-> "restarted_hanging_processes" ],
                 [k \in 1..Len(hanging(env.procs)) |->
                     [kill |-> hanging(env.procs)[k].pid]])

\* restart_hanging_processes, lines 351-380
restart_hanging_processes(env) ==
    IF env.raises
    THEN Outcome([ task |-> "restart_hanging_processes", success |-> FALSE,
                   error |-> <<"process_iter failed">> ], <<>>)
    ELSE Outcome([ task |-> "restart_hanging_processes", success |-> TRUE,
                   hanging_processes_found |-> Len(hanging(env.procs)),
                   processes |-> hanging(env.procs),
                   action |-> "identified_hanging_processes" ], <<>>)

(***************************************************************************)
(* app/services/heal.py: run_healing_tasks.                                *)
(***************************************************************************)
\* a default list with the two middle tasks exchanged
default_tasks_swapped ==
    <<"restart_failed_services", "check_memory_usage", "clean_disk_space",
      "restart_hanging_processes">>

\* the task list used when none is given, line 20
default_tasks ==
    <<"restart_failed_services", "clean_disk_space", "check_memory_usage",
      "restart_hanging_processes">>

\* a dispatch that cleans the disk from 40% usage on
run_task_cleans_from_40(task, env) ==
    CASE task = "restart_failed_services" ->
           restart_failed_services(default_services, env)
      [] task = "clean_disk_space" -> clean_disk_space(40, env)
      [] task = "check_memory_usage" -> check_memory_usage(90, env)
      [] task = "restart_hanging_processes" -> restart_hanging_processes(env)
      [] OTHER -> Outcome([ task |-> task, success |-> FALSE,
                            message |-> <<"Unknown task">> ], <<>>)

\* the dispatch of lines 30-39; env is what the host answers to the task
run_task(task, env) ==
    CASE task = "restart_failed_services" ->
           restart_failed_services(default_services, env)
      [] task = "clean_disk_space" -> clean_disk_space(85, env)
      [] task = "check_memory_usage" -> check_memory_usage(90, env)
      [] task = "restart_hanging_processes" -> restart_hanging_processes(env)
      [] OTHER -> Outcome([ task |-> task, success |-> FALSE,
                            message |-> <<"Unknown task">> ], <<>>)

\* an overall flag that keeps the last task's flag only
overall_after_last_wins(overall_success, task_result) == task_result.success

\* lines 42-43: if not result.get("success", False): overall_success = False
overall_after(overall_success, task_result) ==
    IF ~task_result.success THEN FALSE ELSE overall_success

\* a loop that stops at the first failed task
next_task_break_on_failure(i, tasks, task_result) ==
    IF task_result.success THEN i + 1 ELSE Len(tasks) + 1

\* the for loop of line 28 moves to the next task whatever the result
next_task(i, tasks, task_result) == i + 1

\* results.append(result), line 41
results_after(results, task_result) == Append(results, task_result)

\* a store_healing_log without its try: a sink that raises raises to the
\* caller
store_healing_log_unguarded(logs, db, ok, results, success) ==
    [ logs |-> IF db # None /\ ok
               THEN Append(logs, [success |-> success, tasks_run |-> Len(results)])
               ELSE logs,
      raised |-> db # None /\ ~ok ]

\* store_healing_log, lines 382-401: the log is inserted when there is a
\* database; a sink that raises is logged and ignored (400-401), so
\* nothing is raised to the caller
store_healing_log(logs, db, ok, results, success) ==
    [ logs |-> IF db # None /\ ok
               THEN Append(logs, [success |-> success, tasks_run |-> Len(results)])
               ELSE logs,
      raised |-> FALSE ]

\* the dict run_healing_tasks returns, lines 61-67, and the one its
\* except branch returns when a step outside the task loop raised, 69-76
HealingReport(overall_success, results, raised) ==
    IF raised
    THEN [ success |-> FALSE, error |-> <<"insert_one failed">>, results |-> results ]
    ELSE [ success |-> overall_success, tasks_completed |-> Len(results),
           results |-> results ]

(***************************************************************************)
(* The hosts the healing run is tried on.                                  *)
(***************************************************************************)
Check(status) ==
    [started |-> TRUE, returncode |-> 0, stdout |-> <<status, "\n">>]

NoTool == [started |-> FALSE, returncode |-> 0, stdout |-> <<>>, stderr |-> <<>>]

Exit(code, err) ==
    [started |-> TRUE, returncode |-> code, stdout |-> <<>>, stderr |-> err]

ServiceNames == {default_services[i] : i \in 1..Len(default_services)}

ServiceEnvs ==
    { [s \in ServiceNames |-> [check |-> Check("active"), restart |-> Exit(0, <<>>)]],
      [s \in ServiceNames |-> [check |-> NoTool, restart |-> NoTool]],
      [s \in ServiceNames |->
          IF s = <<"nginx">>
          THEN [check |-> Check("failed"), restart |-> Exit(0, <<>>)]
          ELSE IF s = <<"mysql">>
          THEN [check |-> Check("inactive"),
                restart |-> Exit(1, <<"Unit mysql.service not found.", "\n">>)]
          ELSE [check |-> Check("unknown"), restart |-> Exit(0, <<>>)]],
      [s \in ServiceNames |->
          IF s = <<"apache2">>
          THEN [check |-> Check("failed"), restart |-> NoTool]
          ELSE [check |-> Check("active"), restart |-> Exit(0, <<>>)]] }

Usage(used, total) == [raises |-> FALSE, used |-> used, total |-> total]

UsageFails == [raises |-> TRUE, used |-> 0, total |-> 1]

File(name, isfile, age, size, removable) ==
    [name |-> name, isfile |-> isfile, age |-> age, size |-> size,
     removable |-> removable]

Dir(files) == [exists |-> TRUE, listable |-> TRUE, files |-> files]

NoDir == [exists |-> FALSE, listable |-> FALSE, files |-> <<>>]

DirNames == {temp_dirs[i] : i \in 1..Len(temp_dirs)}

Day == 24 * 3600

BusyDirs ==
    [d \in DirNames |->
        IF d = <<"/tmp">>
        THEN Dir(<< File(<<"tmp", "a">>, TRUE, Day, 3 * MiB, TRUE),
                    File(<<"keep">>, TRUE, 30 * Day, MiB, TRUE) >>)
        ELSE IF d = <<"/var/log">>
        THEN Dir(<< File(<<"old", ".log">>, TRUE, 8 * Day, 2 * MiB, TRUE),
                    File(<<"new", ".log">>, TRUE, Day, MiB, TRUE) >>)
        ELSE NoDir]

\* directories where a removal fails, a listing fails, and a log file of
\* yesterday has a name that starts with tmp
HardDirs ==
    [d \in DirNames |->
        IF d = <<"/tmp">>
        THEN Dir(<< File(<<"tmp", "a">>, TRUE, Day, 3 * MiB, FALSE),
                    File(<<"b", ".tmp">>, TRUE, Day, MiB, TRUE) >>)
        ELSE IF d = <<"/var/tmp">>
        THEN [exists |-> TRUE, listable |-> FALSE, files |-> <<>>]
        ELSE Dir(<< File(<<"tmp", "x", ".log">>, TRUE, Day, MiB, TRUE),
                    File(<<"old", ".log">>, TRUE, 8 * Day, 2 * MiB, TRUE),
                    File(<<"tmp", "dir">>, FALSE, 9 * Day, 0, TRUE),
                    File(<<"new", ".log">>, TRUE, Day, MiB, TRUE) >>)]

DiskEnvs ==
    { [ usage |-> Usage(90, 100), dirs |-> HardDirs,
        docker |-> Exit(1, <<"Cannot connect to the Docker daemon">>),
        apt |-> NoTool, yum |-> Exit(0, <<>>), final |-> Usage(89, 100) ],
      [ usage |-> Usage(88, 100), dirs |-> BusyDirs, docker |-> NoTool,
        apt |-> Exit(100, <<"E: Could not open lock file">>), yum |-> NoTool,
        final |-> Usage(88, 100) ],
 [ usage |-> Usage(50, 100), dirs |-> BusyDirs, docker |-> NoTool,
        apt |-> NoTool, yum |-> NoTool, final |-> Usage(50, 100) ],
      [ usage |-> Usage(50, 100), dirs |-> BusyDirs,
        docker |-> [Exit(0, <<>>) EXCEPT !.stdout = <<"Total reclaimed space", ": 1GB">>],
        apt |-> Exit(0, <<>>), yum |-> NoTool, final |-> Usage(50, 100) ],
      [ usage |-> Usage(84, 100), dirs |-> BusyDirs, docker |-> NoTool,
        apt |-> Exit(0, <<>>), yum |-> NoTool, final |-> Usage(84, 100) ],
      [ usage |-> Usage(95, 100), dirs |-> BusyDirs,
        docker |-> [Exit(0, <<>>) EXCEPT !.stdout = <<"Total reclaimed space", ": 1GB">>],
        apt |-> Exit(0, <<>>), yum |-> NoTool, final |-> Usage(90, 100) ],
      [ usage |-> Usage(95, 100), dirs |-> [d \in DirNames |-> NoDir],
        docker |-> NoTool, apt |-> NoTool, yum |-> NoTool,
        final |-> Usage(95, 100) ],
      [ usage |-> Usage(85, 100), dirs |-> [d \in DirNames |-> NoDir],
        docker |-> NoTool, apt |-> NoTool, yum |-> NoTool,
        final |-> Usage(85, 100) ],
      [ usage |-> UsageFails, dirs |-> BusyDirs, docker |-> NoTool,
        apt |-> NoTool, yum |-> NoTool, final |-> UsageFails ] }

Proc(pid, percent, status) ==
    [pid |-> pid, memory_percent |-> percent, status |-> status, readable |-> TRUE]

Procs ==
    << Proc(1, 12, "sleeping"), Proc(2, 40, "zombie"), Proc(3, 5, "running"),
       Proc(4, 12, "disk-sleep") >>

\* a host with seven processes above 10% of memory, one at 10% and one below
ManyProcs ==
    << Proc(11, 11, "sleeping"), Proc(12, 14, "running"), Proc(13, 10, "running"),
       Proc(14, 12, "sleeping"), Proc(15, 13, "running"), Proc(16, 9, "sleeping"),
       Proc(17, 16, "running"), Proc(18, 15, "running"), Proc(19, 11, "sleeping") >>

MemoryEnvs ==
    { [raises |-> FALSE, percent |-> 40, procs |-> Procs],
      [raises |-> FALSE, percent |-> 89, procs |-> ManyProcs],
      [raises |-> FALSE, percent |-> 90, procs |-> ManyProcs],
      [raises |-> FALSE, percent |-> 93, procs |-> Procs],
      [raises |-> TRUE, percent |-> 0, procs |-> <<>>],
      [raises |-> FALSE, percent |-> 95,
       procs |-> << [Proc(7, 0, "running") EXCEPT !.readable = FALSE] >>] }

ProcessEnvs ==
    { [raises |-> FALSE, procs |-> Procs],
      [raises |-> FALSE, procs |-> <<>>],
      [raises |-> TRUE, procs |-> <<>>] }

NoEnv == [raises |-> FALSE]

EnvsFor(task) ==
    CASE task = "restart_failed_services" -> ServiceEnvs
      [] task = "clean_disk_space" -> DiskEnvs
      [] task = "check_memory_usage" -> MemoryEnvs
      [] task = "restart_hanging_processes" -> ProcessEnvs
      [] OTHER -> {NoEnv}

\* the task names a caller passes: the four tasks and one that is none
TaskNames ==
    {"restart_failed_services", "clean_disk_space", "check_memory_usage",
     "restart_hanging_processes", "reboot"}

MaxTasks == 2

RECURSIVE ListsUpTo(_, _)
ListsUpTo(S, n) ==
    IF n = 0 THEN {<<>>}
    ELSE LET shorter == ListsUpTo(S, n - 1)
         IN  shorter \cup {Append(l, x) : l \in shorter, x \in S}

\* run_healing_tasks, lines 13-26: a call starts, with a task list or none
HealStart ==
    /\ heal_pc = "idle"
    /\ \E given \in BOOLEAN :
         \E tasks \in IF given THEN ListsUpTo(TaskNames, MaxTasks) ELSE {<<>>} :
            heal' = [ given |-> given,
                      tasks |-> IF given THEN tasks ELSE default_tasks,
                      i |-> 1, results |-> <<>>, overall_success |-> TRUE ]
    /\ heal_pc' = "loop"
    /\ UNCHANGED <<heal_envs, heal_effects, healing_logs, report>>
    /\ UNCHANGED <<dvars, pvars>>

\* run_healing_tasks, lines 28-52: one turn of the loop runs a task
HealTask ==
    /\ heal_pc = "loop"
    /\ heal.i <= Len(heal.tasks)
    /\ LET task == heal.tasks[heal.i]
       IN  \E env \in EnvsFor(task) :
              LET out == run_task(task, env)
              IN  /\ heal' = [heal EXCEPT
                         !.results = results_after(heal.results, out.value),
                         !.overall_success = overall_after(heal.overall_success, out.value),
                         !.i = next_task(heal.i, heal.tasks, out.value)]
                  /\ heal_envs' = Append(heal_envs, env)
                  /\ heal_effects' = Append(heal_effects, out.effects)
    /\ UNCHANGED <<heal_pc, healing_logs, report>>
    /\ UNCHANGED <<dvars, pvars>>

\* restart_failed_services, lines 91-96: communicate() is awaited with no
\* timeout, so a status query that never exits blocks the run for ever
HealTaskHangs ==
    /\ heal_pc = "loop"
    /\ heal.i <= Len(heal.tasks)
    /\ heal.tasks[heal.i] = "restart_failed_services"
    /\ heal_effects' = Append(heal_effects,
          << Issue(is_active_cmd(sanitize_input(default_services[1], 30)), "never") >>)
    /\ heal_pc' = "blocked"
    /\ UNCHANGED <<heal, heal_envs, healing_logs, report>>
    /\ UNCHANGED <<dvars, pvars>>

\* run_healing_tasks, lines 54-67: the log is stored and the report returned
HealFinish ==
    /\ heal_pc = "loop"
    /\ heal.i > Len(heal.tasks)
    /\ \E ok \in BOOLEAN :
          LET stored == store_healing_log(healing_logs, database, ok,
                                          heal.results, heal.overall_success)
          IN  /\ healing_logs' = stored.logs
              /\ report' = HealingReport(heal.overall_success, heal.results,
                                         stored.raised)
    /\ heal_pc' = "done"
    /\ UNCHANGED <<heal, heal_envs, heal_effects>>
    /\ UNCHANGED <<dvars, pvars>>

NextHeal == HealStart \/ HealTask \/ HealTaskHangs \/ HealFinish

SpecHeal == Init /\ [][NextHeal]_vars

(***************************************************************************)
(* app/core/security.py: sanitize_input called on its own.  The inputs are *)
(* the texts made of at most MaxPieces of the pieces below, which hold     *)
(* each kind of character the function treats differently.                 *)
(***************************************************************************)
Pieces ==
    { <<"d","a","t","a",":">>, <<"D","a","t","a",":">>,
      <<"<","s","c","r","i","p","t">>, <<" ">>, <<";">>, <<"w">> }

MaxPieces == 3

RECURSIVE Texts(_)
Texts(n) ==
    IF n = 0 THEN {<<>>}
    ELSE LET shorter == Texts(n - 1)
         IN  shorter \cup {s \o p : s \in shorter, p \in Pieces}

\* the bounds the callers pass: 50 for application names (deploy.py 19),
\* 30 for service names (heal.py 88), and two that are shorter than a
\* replacement
MaxLengths == {5, 8, 30, 50}

SanitizeCall ==
    /\ pure_call = NoCall
    /\ \E s \in Texts(MaxPieces) : \E n \in MaxLengths :
          pure_call' = [fn |-> "sanitize_input", args |-> <<s, n>>,
                        ret |-> sanitize_input(s, n)]
    /\ UNCHANGED <<dvars, hvars, rvars>>

NextSanitize == SanitizeCall

SpecSanitize == Init /\ [][NextSanitize]_vars

(***************************************************************************)
(* Properties of deploy_application.                                       *)
(***************************************************************************)
\* what the probe of backend b answers on the host of call t, run or not
WouldMatch(t, b) == ProbeMatches(b, frame[t].app_name, host[t][b])

NoProbeMatches(t) == \A b \in Backends : ~WouldMatch(t, b)

\* the handler call of lines 48-69 has returned
HandlerReturned(t) ==
    \/ pc[t] = "update_log"
    \/ pc[t] \in {"done", "propagated"} /\ issued[t] # <<>>

AllStrategies ==
    {"docker_container", "docker_compose", "system_service", "pm2_process",
     "system_service_fallback"}

\* C1: whatever the name and the four probe outcomes, once resolution is
\* over exactly one of the five strategies is selected, never none; when
\* no probe matches it is the system-service fallback; and the result of a
\* call that completed names that strategy.
C1_ExactlyOneBackend ==
    \A t \in Tasks :
        /\ HandlerReturned(t) =>
              /\ frame[t].strategy_used \in AllStrategies
              /\ NoProbeMatches(t) => frame[t].strategy_used = "system_service_fallback"
        /\ (pc[t] = "done" /\ frame[t].raised = <<>>) =>
              /\ "strategy_used" \in DOMAIN result[t]
              /\ result[t].strategy_used \in AllStrategies
              /\ result[t].strategy_used = frame[t].strategy_used

C1_Witness ==
    \E t \in Tasks :
        /\ pc[t] = "done"
        /\ NoProbeMatches(t)
        /\ "strategy_used" \in DOMAIN result[t]
        /\ result[t].strategy_used = "system_service_fallback"

\* the strategy the priority order container > compose service > system
\* service > process manager asks for on the host of call t
ExpectedStrategy(t) ==
    IF WouldMatch(t, "docker") THEN "docker_container"
    ELSE IF WouldMatch(t, "compose") THEN "docker_compose"
    ELSE IF WouldMatch(t, "systemd") THEN "system_service"
    ELSE IF WouldMatch(t, "pm2") THEN "pm2_process"
    ELSE "system_service_fallback"

\* C2: the strategy selected is the one of the highest-priority backend
\* whose probe answers true on the host, in the order container, compose
\* service, system service, process manager; so a host where both the
\* container and the system-service probe match gets the container one.
C2_HighestPriorityMatch ==
    \A t \in Tasks :
        HandlerReturned(t) => frame[t].strategy_used = ExpectedStrategy(t)

C2_Witness ==
    \E t \in Tasks :
        /\ pc[t] = "done"
        /\ WouldMatch(t, "docker") /\ WouldMatch(t, "systemd")
        /\ "strategy_used" \in DOMAIN result[t]
        /\ result[t].strategy_used = "docker_container"

\* the docker stop, pull and start invocations of call t, in order
DeploySteps(t) ==
    SelectSeq(issued[t],
              LAMBDA x : /\ x.argv[1] = <<"docker">>
                         /\ x.argv[2] \in {<<"stop">>, <<"pull">>, <<"start">>})

DeployOrder == << <<"stop">>, <<"pull">>, <<"start">> >>

AllZero(steps) == \A i \in 1..Len(steps) : steps[i].exit = "zero"

\* C3: in a container deploy the steps are issued in the order stop, pull,
\* start, each on the requested name and each only after the previous one
\* exited 0; the handler returns at the first step that does not exit 0,
\* with failure, and succeeds only when all three exited 0; so after a
\* failed pull no start is ever issued.
C3_DeployStepsInOrder ==
    \A t \in Tasks :
        (frame[t].branch = "docker" /\ frame[t].deployment_type = "deploy") =>
            LET steps == DeploySteps(t)
            IN  /\ Len(steps) <= Len(DeployOrder)
                /\ \A i \in 1..Len(steps) :
                      /\ steps[i].argv = << <<"docker">>, DeployOrder[i], frame[t].app_name >>
                      /\ i > 1 => steps[i - 1].exit = "zero"
                /\ HandlerReturned(t) =>
                      /\ steps # <<>>
                      /\ frame[t].success <=> (Len(steps) = Len(DeployOrder) /\ AllZero(steps))
                      /\ ~frame[t].success => steps[Len(steps)].exit # "zero"

C3_Witness ==
    \E t \in Tasks :
        /\ pc[t] = "done"
        /\ frame[t].branch = "docker" /\ frame[t].deployment_type = "deploy"
        /\ Len(DeploySteps(t)) = 2
        /\ DeploySteps(t)[1].exit = "zero"
        /\ DeploySteps(t)[2].argv[2] = <<"pull">>
        /\ DeploySteps(t)[2].exit = "nonzero"
        /\ ~result[t].success

\* the writes of call number c that the collection accepted
OpsOfCall(c) == SelectSeq(sink_ops, LAMBDA op : op.call = c)

\* C4: when there is a database, the call's entry is inserted with status
\* in_progress before the call invokes any probe or lifecycle command; the
\* entry stays in_progress while probing and execution go on; it is
\* updated only once the handler has returned, to success when the handler
\* reported success and to failed otherwise.
C4_AuditOrder ==
    \A t \in Tasks :
        LET f == frame[t]
            mine == OpsOfCall(f.call)
        IN  /\ (database # None /\ issued[t] # <<>>) =>
                  /\ mine # <<>>
                  /\ mine[1].op = "insert" /\ mine[1].status = "in_progress"
                  /\ mine[1].id = f.log_id
            /\ (pc[t] \in {"probe", "handle", "blocked", "update_log"} /\ f.log_id # 0) =>
                  /\ Len(mine) = 1
                  /\ deployment_logs[f.log_id].status = "in_progress"
            /\ \A i \in 1..Len(mine) :
                  mine[i].op = "update" =>
                      /\ i > 1
                      /\ pc[t] = "done" /\ f.strategy_used # ""
                      /\ mine[i].status = (IF f.success THEN "success" ELSE "failed")
                      /\ deployment_logs[mine[i].id].status = mine[i].status

C4_Witness ==
    \E t \in Tasks :
        /\ pc[t] = "done"
        /\ frame[t].log_id # 0
        /\ frame[t].success
        /\ Len(OpsOfCall(frame[t].call)) = 2
        /\ deployment_logs[frame[t].log_id].status = "success"

\* C5: whatever the state of the audit sink (absent, failing on insert,
\* failing on update), a call that returns has resolved a backend and run
\* its handler, and the success flag it returns is the handler's outcome.
C5_PersistenceNeverPrecondition ==
    \A t \in Tasks :
        pc[t] = "done" =>
            /\ frame[t].branch # ""
            /\ result[t].success = frame[t].success

\* C6: no fault leaves deploy_application: a call whose audit insert or
\* audit update raised has returned a result with success false whose
\* error field is the fault's message, and every call that is over has
\* returned a result.
C6_FaultsBecomeResults ==
    \A t \in Tasks :
        /\ pc[t] # "propagated"
        /\ pc[t] = "done" => "success" \in DOMAIN result[t]
        /\ (pc[t] \in {"done", "propagated"} /\ frame[t].raised # <<>>) =>
              /\ "success" \in DOMAIN result[t] /\ ~result[t].success
              /\ "error" \in DOMAIN result[t] /\ result[t].error = frame[t].raised

C6_Witness ==
    \E t \in Tasks :
        /\ pc[t] = "done"
        /\ frame[t].raised = <<"update_one failed">>
        /\ ~result[t].success
        /\ result[t].error = <<"update_one failed">>

Count(ops, id, kind) ==
    Len(SelectSeq(ops, LAMBDA op : op.id = id /\ op.op = kind))

FinalStatus == {"success", "failed"}

Reported == heal_pc = "done"

\* the host makes the task raise inside its own try block
TaskFaults(task, env) ==
    CASE task = "restart_failed_services" ->
           \E name \in ServiceNames :
               \/ ~env[name].check.started
               \/ /\ Strip(env[name].check.stdout) \in {<<"failed">>, <<"inactive">>}
                  /\ ~env[name].restart.started
      [] task = "clean_disk_space" -> env.usage.raises
      [] task = "check_memory_usage" ->
           \/ env.raises
           \/ /\ env.percent >= 90
              /\ \E k \in 1..Len(env.procs) : ~env.procs[k].readable
      [] task = "restart_hanging_processes" -> env.raises
      [] OTHER -> FALSE

Failures(results) == {k \in 1..Len(results) : ~results[k].success}

\* C8: the success flag of the report is the conjunction of the success
\* flags of its task results: false when any task result failed, true when
\* all of them succeeded.
C8_SuccessIsConjunction ==
    Reported =>
        report.success = (\A k \in 1..Len(report.results) : report.results[k].success)

\* a default run in which three of the four tasks succeeded
C8_Witness ==
    /\ Reported
    /\ Len(report.results) = 4
    /\ Cardinality(Failures(report.results)) = 1
    /\ ~report.success

\* C9: every task of the list is attempted exactly once and leaves exactly
\* one result (tasks_completed is the length of the list); a task that
\* faults leaves a failed result carrying the fault text, and the tasks
\* after it still run.
C9_EveryTaskRunsOnce ==
    /\ Len(heal_envs) = Len(heal.results)
    /\ heal_pc = "loop" => Len(heal.results) = heal.i - 1
    /\ \A k \in 1..Len(heal.results) :
          TaskFaults(heal.tasks[k], heal_envs[k]) =>
             /\ ~heal.results[k].success
             /\ "error" \in DOMAIN heal.results[k]
             /\ heal.results[k].error # <<>>
    /\ Reported =>
          /\ report.tasks_completed = Len(heal.tasks)
          /\ Len(report.results) = Len(heal.tasks)
          /\ Len(heal_envs) = Len(heal.tasks)

\* a faulting first task followed by a task that ran and succeeded
C9_Witness ==
    /\ Reported
    /\ Len(heal.tasks) >= 2
    /\ TaskFaults(heal.tasks[1], heal_envs[1])
    /\ ~report.results[1].success
    /\ report.results[Len(heal.tasks)].success

\* C10: the results are in the order of the requested tasks, results[i]
\* being the result of tasks[i]; with no list given the report holds the
\* four results of restart_failed_services, clean_disk_space,
\* check_memory_usage, restart_hanging_processes in that order.
C10_ResultsInTaskOrder ==
    /\ \A k \in 1..Len(heal.results) : heal.results[k].task = heal.tasks[k]
    /\ (Reported /\ ~heal.given) =>
          /\ Len(report.results) = 4
          /\ report.results[1].task = "restart_failed_services"
          /\ report.results[2].task = "clean_disk_space"
          /\ report.results[3].task = "check_memory_usage"
          /\ report.results[4].task = "restart_hanging_processes"

\* a run without a task list has reported its four results
C10_Witness ==
    /\ Reported
    /\ ~heal.given
    /\ Len(report.results) = 4
    /\ report.results[2].task = "clean_disk_space"

(***************************************************************************)
(* Properties of the command invocations.                                  *)
(***************************************************************************)
\* the exits of the commands a call has issued so far
Exits(t) == {issued[t][k].exit : k \in 1..Len(issued[t])}

\* C11: every external command a call invokes is bounded by a timeout: no
\* call is ever left waiting on a command that never exits, the command
\* having been terminated and turned into a failed outcome instead.
C11_CommandsAreBounded ==
    \A t \in Tasks : pc[t] # "blocked" /\ "never" \notin Exits(t)

\* the command the handler of the call issued last, <<>> when the handler
\* has issued none
LastHandlerCommand(t) ==
    LET f == frame[t]
    IN  IF f.branch = "" THEN <<>>
        ELSE IF f.branch = "docker" /\ f.deployment_type = "deploy"
        THEN docker_deploy_commands(f.app_name)[f.step]
        ELSE HandlerCommand(f.branch, f.app_name, f.deployment_type)

\* the handler's last command could not be started
HandlerStartFailed(t) ==
    /\ issued[t] # <<>>
    /\ LastHandlerCommand(t) # <<>>
    /\ issued[t][Len(issued[t])] = Issue(LastHandlerCommand(t), "not_started")

\* C12: when the program of a lifecycle command cannot be started, the
\* handler returns to deploy_application (it does not raise) a failed
\* outcome whose error text is not empty.
C12_MissingToolIsFailedOutcome ==
    \A t \in Tasks :
        HandlerStartFailed(t) =>
            /\ pc[t] \in {"update_log", "done"}
            /\ ~frame[t].success
            /\ frame[t].error # <<>>
            /\ frame[t].error = StartError(LastHandlerCommand(t))
            /\ frame[t].strategy_used # ""

\* the fallback handler could not start sudo, and the call has returned
C12_Witness ==
    \E t \in Tasks :
        /\ HandlerStartFailed(t)
        /\ frame[t].branch = "fallback"
        /\ pc[t] = "done"
        /\ ~result[t].success

\* the command of the probe failed: it could not start or exited non-zero
ProbeCommandFailed(t, b) == ~host[t][b].started \/ host[t][b].returncode # 0

\* C13: each of the four probes returns false whenever its command fails
\* (the tool cannot be started, or it exits non-zero), whatever it printed:
\* no arm is ever selected by a probe whose command failed.
C13_FailedProbeIsNoMatch ==
    \A t \in Tasks : \A b \in Backends :
        (pc[t] # "idle" /\ frame[t].branch = b) => ~ProbeCommandFailed(t, b)

(***************************************************************************)
(* Properties of sanitize_input.                                           *)
(***************************************************************************)
Sanitized == pure_call.fn = "sanitize_input"

\* C14: for every input string s and bound n, sanitize_input(s, n) is at
\* most n long, so that every application name deploy_application passes
\* to a command (sanitize_input(app_name, 50)) is at most 50 long.
C14_SanitizedLengthBounded ==
    Sanitized => Len(pure_call.ret) <= pure_call.args[2]

\* the characters a shell gives a meaning to
ShellMetacharacters == {";", "|", "&", "$", "<", ">"}

HasMetacharacter(s) == \E k \in 1..Len(s) : s[k] \in ShellMetacharacters

\* C15: no application name that reaches an external command contains a
\* shell metacharacter: once a call has issued a command, the name it
\* builds its commands from holds none.
C15_NoMetacharacterReachesCommand ==
    \A t \in Tasks : issued[t] # <<>> => ~HasMetacharacter(frame[t].app_name)

(***************************************************************************)
(* Properties of the lifecycle handlers.                                   *)
(***************************************************************************)
\* the handler of the call has been entered and has left the handle step
HandlerIssued(t) == frame[t].branch # "" /\ pc[t] # "handle"

\* argv of the command the call issued last
LastArgv(t) == issued[t][Len(issued[t])].argv

SystemdRestart(name) ==
    << <<"sudo">>, <<"systemctl">>, <<"restart">>, name \o <<".service">> >>

\* C16: for the system-service and the process-manager backends the Deploy
\* action issues exactly the command the Restart action issues.
C16_DeployDegradesToRestart ==
    \A t \in Tasks :
        ( /\ HandlerIssued(t)
          /\ frame[t].deployment_type = "deploy"
          /\ frame[t].branch \in {"systemd", "fallback", "pm2"} )
        => LastArgv(t) = HandlerCommand(frame[t].branch, frame[t].app_name, "restart")

\* C16 as the code has it: Deploy issues the Restart command for the
\* system-service backend (chosen by its probe or as the fallback); for
\* the process-manager backend it issues pm2 reload, not pm2 restart.
C16_DeployDegradesForSystemd ==
    \A t \in Tasks :
        (HandlerIssued(t) /\ frame[t].deployment_type = "deploy") =>
            /\ frame[t].branch \in {"systemd", "fallback"} =>
                  LastArgv(t) = SystemdRestart(frame[t].app_name)
            /\ frame[t].branch = "pm2" =>
                  /\ LastArgv(t) = << <<"pm2">>, <<"reload">>, frame[t].app_name >>
                  /\ LastArgv(t) # HandlerCommand("pm2", frame[t].app_name, "restart")

\* a Deploy on a name the system-service probe matched has returned
C16_Witness ==
    \E t \in Tasks :
        /\ pc[t] = "done"
        /\ frame[t].deployment_type = "deploy"
        /\ frame[t].branch = "systemd"
        /\ LastArgv(t) = SystemdRestart(frame[t].app_name)
        /\ result[t].success

\* the positions in the call's history of the commands that are no probe
LifecycleCommands(t) ==
    {k \in 1..Len(issued[t]) :
        \A b \in Backends : issued[t][k].argv # ProbeCommand(b, frame[t].app_name)}

\* what each backend and action are to issue
ExpectedCommand(branch, action, name) ==
    CASE branch = "docker" -> << <<"docker">>, <<"restart">>, name >>
      [] branch = "compose" /\ action = "restart" ->
           << <<"docker-compose">>, <<"restart">>, name >>
      [] branch = "compose" /\ action = "deploy" ->
           << <<"docker-compose">>, <<"up">>, <<"-d">>, <<"--force-recreate">>, name >>
      [] branch \in {"systemd", "fallback"} -> SystemdRestart(name)
      [] branch = "pm2" /\ action = "restart" -> << <<"pm2">>, <<"restart">>, name >>
      [] branch = "pm2" /\ action = "deploy" -> << <<"pm2">>, <<"reload">>, name >>

\* C17: every backend and action other than the container Deploy issues
\* exactly one lifecycle command and succeeds exactly when it exits 0:
\* Restart issues the backend's restart of the name (of name.service for
\* the system-service backend and the fallback), compose Deploy a detached
\* force-recreate, process-manager Deploy a reload.
C17_OneCommandPerAction ==
    \A t \in Tasks :
        ( /\ HandlerReturned(t)
          /\ frame[t].deployment_type \in {"restart", "deploy"}
          /\ ~(frame[t].branch = "docker" /\ frame[t].deployment_type = "deploy") )
        => /\ Cardinality(LifecycleCommands(t)) = 1
           /\ LifecycleCommands(t) = {Len(issued[t])}
           /\ LastArgv(t) = ExpectedCommand(frame[t].branch, frame[t].deployment_type,
                                           frame[t].app_name)
           /\ frame[t].success <=> (issued[t][Len(issued[t])].exit = "zero")

\* only a container is named w1: Restart issued one docker restart after
\* one probe, and the call returned success
C17_Witness ==
    \E t \in Tasks :
        /\ pc[t] = "done"
        /\ frame[t].app_name = <<"w", "1">>
        /\ frame[t].branch = "docker"
        /\ \A b \in Backends \ {"docker"} : ~WouldMatch(t, b)
        /\ frame[t].deployment_type = "restart"
        /\ Len(issued[t]) = 2
        /\ LastArgv(t) = << <<"docker">>, <<"restart">>, <<"w", "1">> >>
        /\ result[t].success

\* the container Deploy of the call ended at a step that exited non-zero
DeploySequenceFailed(t) ==
    /\ pc[t] = "done"
    /\ frame[t].raised = <<>>
    /\ frame[t].branch = "docker" /\ frame[t].deployment_type = "deploy"
    /\ DeploySteps(t) # <<>>
    /\ DeploySteps(t)[Len(DeploySteps(t))].exit = "nonzero"

\* the lists hold one text per executed step, each printed by that step
TraceOfExecutedSteps(t) ==
    LET steps == DeploySteps(t)
        f == frame[t]
    IN  /\ Len(f.combined_output) = Len(steps)
        /\ Len(f.combined_error) = Len(steps)
        /\ \A k \in 1..Len(steps) :
              /\ f.combined_output[k] \in {<<>>, <<"out:">> \o steps[k].argv[2]}
              /\ f.combined_error[k] \in {<<>>, <<"err:">> \o steps[k].argv[2]}

\* C18: the output and error of a container Deploy are the in-order
\* concatenations of the stdout and stderr of exactly the executed steps,
\* the failing one included, and when the sequence fails the result
\* deploy_application returns carries this partial trace, output and error.
C18_PartialTraceReturned ==
    \A t \in Tasks :
        DeploySequenceFailed(t) =>
            /\ TraceOfExecutedSteps(t)
            /\ frame[t].output = Join(frame[t].combined_output, <<"\n">>)
            /\ frame[t].error = Join(frame[t].combined_error, <<"\n">>)
            /\ "error" \in DOMAIN result[t]
            /\ result[t].error = frame[t].error
            /\ "output" \in DOMAIN result[t]
            /\ result[t].output = frame[t].output

(***************************************************************************)
(* Properties of the resolution.                                           *)
(***************************************************************************)
ProbeOrder == <<"docker", "compose", "systemd", "pm2">>

\* the positions in the call's history of the probes' commands
ProbesInvoked(t) ==
    {k \in 1..Len(issued[t]) :
        \E b \in Backends : issued[t][k].argv = ProbeCommand(b, frame[t].app_name)}

\* what the probe at position k of the order returns on the call's host
ProbeReturns(t, k) ==
    LET name == frame[t].app_name
        o == host[t][ProbeOrder[k]]
    IN  CASE k = 1 -> is_docker_container(name, o)
          [] k = 2 -> is_docker_compose_service(name, o)
          [] k = 3 -> is_system_service(name, o)
          [] k = 4 -> is_pm2_process(name, o)

\* C19: within one resolution the probes are invoked one after the other
\* in the fixed order, each at most once, and none is invoked after a
\* probe has returned true.
C19_ProbesShortCircuit ==
    \A t \in Tasks :
        /\ ProbesInvoked(t) \subseteq 1..Len(ProbeOrder)
        /\ \A k \in ProbesInvoked(t) :
              /\ issued[t][k].argv = ProbeCommand(ProbeOrder[k], frame[t].app_name)
              /\ \A j \in 1..(k - 1) :
                    /\ j \in ProbesInvoked(t)
                    /\ issued[t][j].exit # "never"
                    /\ ~ProbeReturns(t, j)

\* the container probe matched a name the system-service and the
\* process-manager probes would match too: one probe was invoked
C19_Witness ==
    \E t \in Tasks :
        /\ pc[t] = "done"
        /\ ProbeReturns(t, 1) /\ ProbeReturns(t, 3) /\ ProbeReturns(t, 4)
        /\ ProbesInvoked(t) = {1}
        /\ Len(issued[t]) = 2

(***************************************************************************)
(* Properties of the healing tasks.                                        *)
(***************************************************************************)
\* the disk usage the task read is below 85%
BelowDiskThreshold(env) ==
    ~env.usage.raises /\ env.usage.used * 100 < 85 * env.usage.total

\* the runs of clean_disk_space so far that found the disk below 85%
IdleDiskRuns ==
    {k \in 1..Len(heal.results) :
        heal.tasks[k] = "clean_disk_space" /\ BelowDiskThreshold(heal_envs[k])}

\* C20: below the 85% threshold clean_disk_space returns success with
\* action no_cleanup_needed, reclaims nothing and deletes, prunes and
\* cleans nothing; run twice at the same usage it returns the same result.
C20_NoCleanupBelowThreshold ==
    \A k \in IdleDiskRuns :
        LET r == heal.results[k]
        IN  /\ r.success
            /\ "action" \in DOMAIN r /\ r.action = "no_cleanup_needed"
            /\ "cleaned_mb" \notin DOMAIN r
            /\ "actions_taken" \notin DOMAIN r
            /\ heal_effects[k] = <<>>
            /\ \A j \in IdleDiskRuns :
                  heal_envs[j].usage = heal_envs[k].usage => heal.results[j] = r

\* the task ran twice at 50% usage, on a host without docker and apt and
\* on one with them, and the report holds the same result twice
C20_Witness ==
    /\ Reported
    /\ heal.tasks = <<"clean_disk_space", "clean_disk_space">>
    /\ IdleDiskRuns = {1, 2}
    /\ heal_envs[1].usage = Usage(50, 100) /\ heal_envs[2].usage = Usage(50, 100)
    /\ heal_envs[1] # heal_envs[2]
    /\ report.results[1] = report.results[2]
    /\ report.results[1].action = "no_cleanup_needed"

\* a run of the default tasks has reported, the disk having been 95% full
DefaultRunAt95 ==
    /\ Reported
    /\ ~heal.given
    /\ heal_envs[2].usage = Usage(95, 100)

\* the bytes the steps of clean_disk_space count on a host: the files the
\* directory step removes, 100 MiB for a prune that reports reclaimed
\* space, 50 MiB for a package cache clean that exits 0
CountedBytes(env) ==
    clean_temp_dirs(temp_dirs, env.dirs, 0, <<>>, <<>>).cleaned_bytes
    + (IF env.docker.started /\ env.docker.returncode = 0
          /\ Contains(env.docker.stdout, <<"Total reclaimed space">>)
       THEN 100 * MiB ELSE 0)
    + (IF env.apt.started THEN (IF env.apt.returncode = 0 THEN 50 * MiB ELSE 0)
       ELSE IF env.yum.started /\ env.yum.returncode = 0 THEN 50 * MiB ELSE 0)

\* the three other tasks of the default run each left their own result,
\* failed exactly when their own host made them fault
OthersRanIndependently ==
    /\ Len(report.results) = 4
    /\ \A k \in {1, 3, 4} :
          /\ report.results[k].task = heal.tasks[k]
          /\ report.results[k].success <=> ~TaskFaults(heal.tasks[k], heal_envs[k])

\* C21: in a run of the default tasks with the disk 95% full,
\* clean_disk_space reclaims space and reports cleaned_mb > 0, and the
\* three other tasks run and report whatever that outcome.
C21_ReclaimsAt95 ==
    DefaultRunAt95 =>
        /\ report.results[2].success
        /\ "cleaned_mb" \in DOMAIN report.results[2]
        /\ report.results[2].cleaned_mb > 0
        /\ OthersRanIndependently

\* C21 as the code has it: cleaned_mb is the counted bytes in MiB rounded
\* to two decimals (here in hundredths), which is 0 on a host where no
\* file qualifies and no tool succeeds; the other tasks run regardless.
C21_ReportsCountedBytesAt95 ==
    DefaultRunAt95 =>
        /\ report.results[2].success
        /\ "cleaned_mb" \in DOMAIN report.results[2]
        /\ report.results[2].cleaned_mb = Round2(CountedBytes(heal_envs[2]), MiB)
        /\ report.results[2].cleaned_mb > 0 <=> CountedBytes(heal_envs[2]) >= 5243
        /\ OthersRanIndependently

\* the disk task reclaimed space while the service task faulted and the
\* memory task succeeded
C21_Witness ==
    /\ DefaultRunAt95
    /\ report.results[2].cleaned_mb > 0
    /\ ~report.results[1].success
    /\ report.results[3].success
    /\ report.results[4].success

\* the runs so far of the two tasks that look at the processes
ProcessTaskRuns ==
    {k \in 1..Len(heal.results) :
        heal.tasks[k] \in {"check_memory_usage", "restart_hanging_processes"}}

\* the processes a result lists, none when it lists none
ListedProcesses(r) ==
    IF "processes" \in DOMAIN r THEN {r.processes[i] : i \in 1..Len(r.processes)}
    ELSE IF "high_memory_processes" \in DOMAIN r
    THEN {r.high_memory_processes[i] : i \in 1..Len(r.high_memory_processes)}
    ELSE {}

RECURSIVE FirstWord(_, _)
FirstWord(s, word) ==
    IF s = <<>> \/ Head(s) \in Whitespace THEN [word |-> word, rest |-> s]
    ELSE FirstWord(Tail(s), Append(word, Head(s)))

\* str.split(): the words between runs of whitespace
RECURSIVE SplitWords(_)
SplitWords(s) ==
    LET t == LStrip(s)
    IN  IF t = <<>> THEN <<>>
        ELSE LET f == FirstWord(t, <<>>)
             IN  <<f.word>> \o SplitWords(f.rest)

kw_status == <<"s","t","a","t","u","s">>
kw_health == <<"h","e","a","l","t","h">>
kw_help == <<"h","e","l","p">>
kw_deploy == <<"d","e","p","l","o","y">>
kw_heal == <<"h","e","a","l">>
kw_restart == <<"r","e","s","t","a","r","t">>
kw_clean == <<"c","l","e","a","n">>

\* lines 137-141: the word after the first word "deploy" whose successor
\* exists, "nginx" when there is none
RECURSIVE AppNameAfterDeploy(_, _)
AppNameAfterDeploy(parts, i) ==
    IF i > Len(parts) THEN <<"n","g","i","n","x">>
    ELSE IF parts[i] = kw_deploy /\ i + 1 <= Len(parts) THEN parts[i + 1]
    ELSE AppNameAfterDeploy(parts, i + 1)

(***************************************************************************)
(* app/services/deploy.py, line 12: the parameters of deploy_application   *)
(* as a call binds them.  args holds the application name and, when the    *)
(* caller passes one, the deployment type after it.                        *)
(***************************************************************************)
\* a signature whose default is the Deploy action
deploy_application_params_default_deploy(args) ==
    [ app_name |-> args[1],
      deployment_type |-> IF Len(args) >= 2 THEN args[2] ELSE "deploy" ]

deploy_application_params(args) ==
    [ app_name |-> args[1],
      deployment_type |-> IF Len(args) >= 2 THEN args[2] ELSE "restart" ]

\* process_command_text, lines 110-155
process_command_text(raw) ==
    LET text == Strip(Lower(raw))
    IN  IF Contains(text, kw_status) \/ Contains(text, kw_health)
        THEN [op |-> "get_system_stats", args |-> <<>>]
        ELSE IF Contains(text, kw_help)
        THEN [op |-> "help", args |-> <<>>]
        ELSE IF Contains(text, kw_deploy)
        THEN LET args == <<AppNameAfterDeploy(SplitWords(text), 1)>>
             IN  [op |-> "deploy_application", args |-> args,
                  params |-> deploy_application_params(args)]
        ELSE IF Contains(text, kw_heal) \/ Contains(text, kw_restart)
        THEN [op |-> "run_healing_tasks", args |-> <<>>]
        ELSE IF Contains(text, kw_clean)
        THEN [op |-> "run_healing_tasks", args |-> << <<"clean_disk_space">> >>]
        ELSE [op |-> "unknown", args |-> <<>>]

\* the words the chat texts are made of: the keywords, two application
\* names, one of them with a capital, one that contains "status", and a
\* mention of the bot
ChatWords ==
    { kw_deploy, kw_heal, kw_clean, kw_help,
      <<"n","g","i","n","x">>, <<"W","e","b">>,
      <<"s","t","a","t","u","s","-","a","p","i">>, <<"<","@","U","1",">">> }

MaxWords == 3

RECURSIVE WordLists(_)
WordLists(n) ==
    IF n = 0 THEN {<<>>}
    ELSE LET shorter == WordLists(n - 1)
         IN  shorter \cup {Append(l, w) : l \in shorter, w \in ChatWords}

\* a call of process_command_text on the words joined by blanks
ProcessCommandText ==
    /\ pure_call = NoCall
    /\ \E words \in WordLists(MaxWords) :
          LET text == Join(words, <<" ">>)
          IN  pure_call' = [fn |-> "process_command_text", args |-> <<text, words>>,
                            ret |-> process_command_text(text)]
    /\ UNCHANGED <<dvars, hvars, rvars>>

(***************************************************************************)
(* app/core/security.py: verify_slack_signature, and the two endpoints of  *)
(* app/api/slack.py.  A header is absent or has a value; the timestamp     *)
(* header holds an integer or a text int() rejects; an HMAC is the record  *)
(* of the secret and of what was signed.                                   *)
(***************************************************************************)
REQUEST_TIMEOUT == 300

SLACK_SIGNING_SECRET == "signing_secret"

\* int(time.time()) when the requests arrive
Now == 1000

Absent == [kind |-> "absent"]

IntHeader(n) == [kind |-> "int", value |-> n]

TextHeader == [kind |-> "text"]

\* 'v0=' + hmac.new(secret, f"v0:{timestamp}:{body}", sha256).hexdigest()
Signature(secret, timestamp, body) ==
    [kind |-> "hmac", secret |-> secret, timestamp |-> timestamp, body |-> body]

Abs(n) == IF n < 0 THEN -n ELSE n

\* a check that accepts every request that has both headers
verify_slack_signature_headers_only(headers, body, current_time) ==
    IF headers.timestamp.kind = "absent" \/ headers.signature.kind = "absent"
    THEN "Missing required Slack headers"
    ELSE "verified"

\* verify_slack_signature, lines 11-65: "verified", or the detail of the
\* HTTPException it raises
verify_slack_signature(headers, body, current_time) ==
    IF headers.timestamp.kind = "absent" \/ headers.signature.kind = "absent"
    THEN "Missing required Slack headers"
    ELSE IF headers.timestamp.kind = "text" THEN "Invalid timestamp format"
    ELSE IF Abs(current_time - headers.timestamp.value) > REQUEST_TIMEOUT
    THEN "Request timestamp too old"
    ELSE IF Signature(SLACK_SIGNING_SECRET, headers.timestamp, body) # headers.signature
    THEN "Invalid signature"
    ELSE "verified"

\* the operations of deploy.py and heal.py a command text starts
Started(command) ==
    IF command.op \in {"deploy_application", "run_healing_tasks"}
    THEN <<command>> ELSE <<>>

\* slack_commands, lines 52-84.  body holds the form fields, the text
\* still with '+' for each blank
slack_commands(headers, body, current_time) ==
    LET verdict == verify_slack_signature(headers, body, current_time)
        command == Strip(body.command)
        text == Strip(Replace(body.text, <<"+">>, <<" ">>))
    IN  IF verdict # "verified"
        THEN [response |-> "ephemeral_error", detail |-> verdict, started |-> <<>>]
        ELSE [response |-> "in_channel", detail |-> "",
              started |-> Started(process_command_text(command \o <<" ">> \o text))]

\* handle_app_mention, lines 86-104: the words of the lowered text that are
\* no mention, joined by blanks
RECURSIVE WithoutMentions(_)
WithoutMentions(words) ==
    IF words = <<>> THEN <<>>
    ELSE IF StartsWith(Head(words), <<"<", "@">>) THEN WithoutMentions(Tail(words))
    ELSE <<Head(words)>> \o WithoutMentions(Tail(words))

handle_app_mention(event) ==
    Started(process_command_text(
        Join(WithoutMentions(SplitWords(Lower(event.text))), <<" ">>)))

\* slack_events, lines 15-50.  body is the payload json.loads gives, or
\* one it rejects
slack_events(headers, body, current_time) ==
    IF ~body.json
    THEN [response |-> "http_500", detail |-> "Invalid JSON", started |-> <<>>]
    ELSE IF body.type = "url_verification"
    THEN IF body.challenge
         THEN [response |-> "challenge", detail |-> "", started |-> <<>>]
         ELSE [response |-> "http_500", detail |-> "Missing challenge parameter",
               started |-> <<>>]
    ELSE LET verdict == verify_slack_signature(headers, body, current_time)
         IN  IF verdict # "verified"
             THEN [response |-> "http_500", detail |-> verdict, started |-> <<>>]
             ELSE [response |-> "ok", detail |-> "",
                   started |-> IF body.has_event /\ body.event.type = "app_mention"
                               THEN handle_app_mention(body.event) ELSE <<>>]

(***************************************************************************)
(* The requests the endpoints are tried with.                              *)
(***************************************************************************)
TimestampHeaders ==
    { Absent, TextHeader, IntHeader(Now), IntHeader(Now - REQUEST_TIMEOUT),
      IntHeader(Now - REQUEST_TIMEOUT - 1), IntHeader(Now + REQUEST_TIMEOUT + 1) }

\* no signature, Slack's signature of this request, a signature made with
\* another secret, and Slack's signature of another body
SignatureHeaders(timestamp, body, other) ==
    { Absent, Signature(SLACK_SIGNING_SECRET, timestamp, body),
      Signature("guessed_secret", timestamp, body),
      Signature(SLACK_SIGNING_SECRET, timestamp, other) }

Form(text) == [command |-> <<"/","d","e","v","o","p","s">>, text |-> text]

CommandBodies ==
    { Form(kw_deploy \o <<"+">> \o <<"n","g","i","n","x">>), Form(kw_heal),
      Form(kw_clean), Form(kw_status), Form(<<>>) }

Mention(text) == [type |-> "app_mention", text |-> <<"<","@","U","1",">"," ">> \o text]

Payload(type, challenge, has_event, event) ==
    [json |-> TRUE, type |-> type, challenge |-> challenge, has_event |-> has_event, event |-> event]

NotJson ==
    [json |-> FALSE, type |-> "", challenge |-> FALSE, has_event |-> FALSE, event |-> Mention(<<>>)]

DeployMention == Mention(<<"D","e","p","l","o","y"," ","n","g","i","n","x">>)

EventBodies ==
    { NotJson,
      Payload("url_verification", TRUE, FALSE, Mention(<<>>)),
      Payload("url_verification", FALSE, FALSE, Mention(<<>>)),
      Payload("url_verification", TRUE, TRUE, DeployMention),
      Payload("event_callback", FALSE, TRUE, DeployMention),
      Payload("event_callback", FALSE, TRUE, Mention(kw_heal)),
      Payload("event_callback", FALSE, TRUE, [type |-> "message", text |-> kw_heal]),
      Payload("event_callback", FALSE, FALSE, Mention(<<>>)) }

\* POST /slack/commands
SlackCommands ==
    /\ pure_call = NoCall
    /\ \E body \in CommandBodies, timestamp \in TimestampHeaders :
         \E signature \in SignatureHeaders(timestamp, body, Form(kw_status)) :
            LET headers == [timestamp |-> timestamp, signature |-> signature]
            IN  pure_call' = [fn |-> "slack_commands", args |-> <<headers, body>>,
                              ret |-> slack_commands(headers, body, Now)]
    /\ UNCHANGED <<dvars, hvars, rvars>>

\* POST /slack/events
SlackEvents ==
    /\ pure_call = NoCall
    /\ \E body \in EventBodies, timestamp \in TimestampHeaders :
         \E signature \in SignatureHeaders(timestamp, body, NotJson) :
            LET headers == [timestamp |-> timestamp, signature |-> signature]
            IN  pure_call' = [fn |-> "slack_events", args |-> <<headers, body>>,
                              ret |-> slack_events(headers, body, Now)]
    /\ UNCHANGED <<dvars, hvars, rvars>>

NextSlack == ProcessCommandText \/ SlackCommands \/ SlackEvents

SpecSlack == Init /\ [][NextSlack]_vars

(***************************************************************************)
(* Properties of the chat endpoints.                                       *)
(***************************************************************************)
\* the text of the call was "deploy <app_name>"
DeployCommandGiven ==
    /\ pure_call.fn = "process_command_text"
    /\ Len(pure_call.args[2]) = 2
    /\ pure_call.args[2][1] = kw_deploy

\* C23: for every application name, the text "deploy <app_name>" makes
\* process_command_text call deploy_application with exactly that name,
\* and start nothing else.
C23_DeployCommandDeploysName ==
    DeployCommandGiven =>
        /\ pure_call.ret.op = "deploy_application"
        /\ pure_call.ret.args = <<pure_call.args[2][2]>>

\* the request of the call went through one of the two endpoints
EndpointCalled == pure_call.fn \in {"slack_commands", "slack_events"}

\* the signature check fails on the request: a header is missing, the
\* timestamp is no integer or more than REQUEST_TIMEOUT away from now, or
\* the signature is not the HMAC of this timestamp and body
SignatureCheckFails ==
    LET headers == pure_call.args[1]
        body == pure_call.args[2]
    IN  \/ headers.timestamp.kind # "int"
        \/ headers.signature.kind # "hmac"
        \/ headers.timestamp.value < Now - REQUEST_TIMEOUT
        \/ headers.timestamp.value > Now + REQUEST_TIMEOUT
        \/ headers.signature.secret # SLACK_SIGNING_SECRET
        \/ headers.signature.timestamp # headers.timestamp
        \/ headers.signature.body # body

UrlVerification ==
    /\ pure_call.fn = "slack_events"
    /\ pure_call.args[2].json /\ pure_call.args[2].type = "url_verification"

\* C24: no deployment or healing operation is started for a request to
\* /slack/commands or /slack/events whose signature check fails; the only
\* requests answered without the check are the url_verification
\* challenges, and they start no operation.
C24_NoOperationWithoutSignature ==
    EndpointCalled =>
        /\ SignatureCheckFails => pure_call.ret.started = <<>>
        /\ UrlVerification => pure_call.ret.started = <<>>
        /\ (SignatureCheckFails /\ pure_call.ret.response \in {"in_channel", "ok", "challenge"})
              => (UrlVerification /\ pure_call.args[2].challenge)

\* a deploy command signed with a guessed secret, with a fresh timestamp,
\* was answered with an error and started nothing
C24_Witness ==
    /\ pure_call.fn = "slack_commands"
    /\ pure_call.args[1].timestamp = IntHeader(Now)
    /\ pure_call.args[1].signature.kind = "hmac"
    /\ pure_call.args[1].signature.secret = "guessed_secret"
    /\ pure_call.args[2].text = kw_deploy \o <<"+">> \o <<"n","g","i","n","x">>
    /\ pure_call.ret.response = "ephemeral_error"
    /\ pure_call.ret.started = <<>>

(***************************************************************************)
(* Properties of concurrent calls of deploy_application.                   *)
(***************************************************************************)
\* every update the collection accepted names an entry that the same call
\* inserted before
UpdatesOwnEntryOnly ==
    \A i \in 1..Len(sink_ops) :
        sink_ops[i].op = "update" =>
            \E j \in 1..(i - 1) :
                /\ sink_ops[j].op = "insert"
                /\ sink_ops[j].id = sink_ops[i].id
                /\ sink_ops[j].call = sink_ops[i].call

\* the backend and the result of a call that returned from line 110 are
\* those its own host and its own last command give
OwnBackendAndResult(t) ==
    (pc[t] = "done" /\ frame[t].raised = <<>>) =>
        /\ result[t].strategy_used = ExpectedStrategy(t)
        /\ result[t].app_name = frame[t].app_name
        /\ result[t].success => issued[t][Len(issued[t])].exit = "zero"
        /\ (~result[t].success /\ LastHandlerCommand(t) # <<>>) =>
               /\ LastArgv(t) = LastHandlerCommand(t)
               /\ issued[t][Len(issued[t])].exit # "zero"

ServiceRuns ==
    {k \in 1..Len(heal.results) : heal.tasks[k] = "restart_failed_services"}

\* the status queries and the restarts among the commands of a run
StatusQueries(effects) ==
    SelectSeq(effects, LAMBDA x : x.argv[1] = <<"systemctl">> /\ x.argv[2] = <<"is-active">>)

Restarts(effects) ==
    SelectSeq(effects, LAMBDA x : x.argv[1] = <<"sudo">>)

StatusQuery(name) == << <<"systemctl">>, <<"is-active">>, name \o <<".service">> >>

\* the status query of the service ran and printed failed or inactive
ReportedDown(env, effects, name) ==
    /\ \E i \in 1..Len(effects) :
          effects[i].argv = StatusQuery(name) /\ effects[i].exit # "not_started"
    /\ Strip(env[name].check.stdout) \in {<<"failed">>, <<"inactive">>}

RestartsIffDown(k) ==
    \A name \in ServiceNames :
        /\ (\E i \in 1..Len(heal_effects[k]) : heal_effects[k][i].argv = SystemdRestart(name))
              <=> ReportedDown(heal_envs[k], heal_effects[k], name)
        /\ Len(SelectSeq(heal_effects[k], LAMBDA x : x.argv = SystemdRestart(name))) <= 1

CompletedWithoutRaising(k) ==
    \A i \in 1..Len(heal_effects[k]) : heal_effects[k][i].exit # "not_started"

\* the service the command of a restart names
RestartedService(x) ==
    CHOOSE name \in ServiceNames : x.argv = SystemdRestart(name)

\* C27: a run of restart_failed_services that completes without raising
\* reports success true even when restarts exit non-zero;
\* services_restarted is the number of restarts that exited 0,
\* total_services_checked the number of candidate services, and each
\* restart that exited non-zero has a record for its service with success
\* false.
C27_SuccessDespiteFailedRestarts ==
    \A k \in ServiceRuns :
        CompletedWithoutRaising(k) =>
            LET r == heal.results[k]
                restarts == Restarts(heal_effects[k])
            IN  /\ r.success
                /\ r.services_restarted =
                      Len(SelectSeq(restarts, LAMBDA x : x.exit = "zero"))
                /\ r.total_services_checked = Len(default_services)
                /\ Len(r.details) = Len(default_services)
                /\ \A i \in 1..Len(restarts) :
                      \E j \in 1..Len(r.details) :
                          /\ r.details[j].service = RestartedService(restarts[i])
                          /\ r.details[j].success <=> restarts[i].exit = "zero"
                          /\ r.details[j].action =
                                IF restarts[i].exit = "zero" THEN "restarted"
                                ELSE "restart_failed"

\* the restart of mysql exited non-zero: the task reported success with one
\* service restarted of six checked and a failure record for mysql
C27_Witness ==
    \E k \in ServiceRuns :
        /\ Reported
        /\ CompletedWithoutRaising(k)
        /\ report.results[k].success
        /\ report.results[k].services_restarted = 1
        /\ report.results[k].total_services_checked = 6
        /\ \E j \in 1..6 :
              /\ report.results[k].details[j].service = <<"mysql">>
              /\ ~report.results[k].details[j].success
              /\ report.results[k].details[j].action = "restart_failed"

(***************************************************************************)
(* Properties of clean_disk_space and clean_directory.                     *)
(***************************************************************************)
\* the runs of clean_disk_space so far that found the disk at or above 85%
CleaningRuns ==
    {k \in 1..Len(heal.results) :
        /\ heal.tasks[k] = "clean_disk_space"
        /\ ~heal_envs[k].usage.raises
        /\ heal_envs[k].usage.used * 100 >= 85 * heal_envs[k].usage.total}

\* the removals and the commands among the effects of a run, in order
Removals(effects) == SelectSeq(effects, LAMBDA x : "remove" \in DOMAIN x)

Commands(effects) == SelectSeq(effects, LAMBDA x : "argv" \in DOMAIN x)

DirIndex(d) == CHOOSE i \in 1..3 : << <<"/tmp">>, <<"/var/tmp">>, <<"/var/log">> >>[i] = d

\* the file of a directory that a removal names
FileNamed(env, removal) ==
    CHOOSE i \in 1..Len(env.dirs[removal[1]].files) :
        env.dirs[removal[1]].files[i].name = removal[2]

RECURSIVE SizesOf(_, _)
SizesOf(env, removals) ==
    IF removals = <<>> THEN 0
    ELSE env.dirs[Head(removals).remove[1]].files[FileNamed(env, Head(removals).remove)].size
         + SizesOf(env, Tail(removals))

\* the bytes the two tools count: 100 MiB for a prune that exited 0 and
\* printed "Total reclaimed space", 50 MiB for a cache clean that exited 0
ToolBytes(env, cmds) ==
    (IF cmds[1].exit = "zero" /\ Contains(env.docker.stdout, <<"Total reclaimed space">>)
     THEN 100 * MiB ELSE 0)
    + (IF cmds[Len(cmds)].exit = "zero" THEN 50 * MiB ELSE 0)

\* the files of the directory that precede position i can all be removed
\* when they qualify, and the directory can be listed
Reached(d, i) ==
    /\ d.exists /\ d.listable
    /\ \A j \in 1..(i - 1) :
          LET f == d.files[j]
          IN  (f.isfile /\ (\/ EndsWith(f.name, <<".log">>) /\ f.age > 7 * Day
                            \/ StartsWith(f.name, <<"tmp">>)
                            \/ EndsWith(f.name, <<".tmp">>))) => f.removable

\* C28: at or above the threshold clean_disk_space cleans /tmp, /var/tmp
\* and /var/log in that order, then prunes the container store, then cleans
\* the package cache; each step is attempted whatever failed before it, a
\* tool that is missing or exits non-zero counts for zero bytes, and the
\* task reports success with the usage before and after and the total of
\* the bytes reclaimed.
C28_EveryStepAttemptedInOrder ==
    \A k \in CleaningRuns :
        LET env == heal_envs[k]
            r == heal.results[k]
            removals == Removals(heal_effects[k])
            cmds == Commands(heal_effects[k])
        IN  /\ heal_effects[k] = removals \o cmds
            /\ \A i, j \in 1..Len(removals) :
                  i < j => DirIndex(removals[i].remove[1]) <= DirIndex(removals[j].remove[1])
            /\ \A d \in DirNames : \A i \in 1..Len(env.dirs[d].files) :
                  (Reached(env.dirs[d], i + 1) /\ env.dirs[d].files[i].isfile
                   /\ StartsWith(env.dirs[d].files[i].name, <<"tmp">>))
                      => \E n \in 1..Len(removals) :
                            removals[n].remove = <<d, env.dirs[d].files[i].name>>
            /\ Len(cmds) \in {2, 3}
            /\ cmds[1].argv = << <<"docker">>, <<"system">>, <<"prune">>, <<"-f">> >>
            /\ cmds[2].argv = << <<"sudo">>, <<"apt-get">>, <<"clean">> >>
            /\ Len(cmds) = 3 <=> cmds[2].exit = "not_started"
            /\ Len(cmds) = 3 => cmds[3].argv = << <<"sudo">>, <<"yum">>, <<"clean">>, <<"all">> >>
            /\ r.success
            /\ r.initial_usage_percent = Round2(env.usage.used * 100, env.usage.total)
            /\ r.final_usage_percent = Round2(env.final.used * 100, env.final.total)
            /\ r.cleaned_mb = Round2(SizesOf(env, removals) + ToolBytes(env, cmds), MiB)

\* a removal failed in /tmp, /var/tmp could not be listed, the prune exited
\* non-zero and apt-get was missing: /var/log was cleaned all the same, yum
\* ran, and the task reported success
C28_Witness ==
    \E k \in CleaningRuns :
        /\ Reported
        /\ heal_envs[k].dirs = HardDirs
        /\ Len(Removals(heal_effects[k])) = 2
        /\ Removals(heal_effects[k])[2].remove = << <<"/var/log">>, <<"old", ".log">> >>
        /\ Len(Commands(heal_effects[k])) = 3
        /\ Commands(heal_effects[k])[1].exit = "nonzero"
        /\ Commands(heal_effects[k])[3].exit = "zero"
        /\ report.results[k].success
        /\ report.results[k].cleaned_mb = 5300

\* the removals of a run are of regular files that qualify
OnlyQualifyingRemoved(k) ==
    LET env == heal_envs[k]
        removals == Removals(heal_effects[k])
    IN  \A n \in 1..Len(removals) :
            LET f == env.dirs[removals[n].remove[1]].files[FileNamed(env, removals[n].remove)]
            IN  /\ f.isfile
                /\ \/ EndsWith(f.name, <<".log">>) /\ f.age > 7 * Day
                   \/ StartsWith(f.name, <<"tmp">>)
                   \/ EndsWith(f.name, <<".tmp">>)

\* the bytes reported for each directory are the sizes of the files removed
\* from it: clean_disk_space records the count clean_directory returned
\* when it is above zero
BytesAreSizesRemoved(k) ==
    LET env == heal_envs[k]
        removals == Removals(heal_effects[k])
        actions == heal.results[k].actions_taken
    IN  \A d \in DirNames :
            LET sum == SizesOf(env, SelectSeq(removals, LAMBDA x : x.remove[1] = d))
            IN  /\ sum > 0 =>
                      \E i \in 1..Len(actions) :
                          actions[i].cleaned = d /\ actions[i].bytes = sum
                /\ sum = 0 => \A i \in 1..Len(actions) : actions[i].cleaned # d

\* the removal of file i of directory d is among the removals of the run
Removed(k, d, i) ==
    \E n \in 1..Len(heal_effects[k]) :
        /\ "remove" \in DOMAIN heal_effects[k][n]
        /\ heal_effects[k][n].remove = <<d, heal_envs[k].dirs[d].files[i].name>>

\* C29 as claimed: clean_directory deletes only regular files that are log
\* files older than 7 days or have a name starting with tmp or ending in
\* .tmp; a log file modified within the last 7 days is never deleted; the
\* byte count is the sum of the sizes of the files deleted.
C29_RecentLogsNeverDeleted ==
    \A k \in CleaningRuns :
        /\ OnlyQualifyingRemoved(k)
        /\ BytesAreSizesRemoved(k)
        /\ \A d \in DirNames : \A i \in 1..Len(heal_envs[k].dirs[d].files) :
              LET f == heal_envs[k].dirs[d].files[i]
              IN  (EndsWith(f.name, <<".log">>) /\ f.age <= 7 * Day) => ~Removed(k, d, i)

\* C29, amended: the same, except that a log file modified within the last
\* 7 days is deleted when its name starts with tmp, and never otherwise.
C29_RecentLogsKeptUnlessTmpName ==
    \A k \in CleaningRuns :
        /\ OnlyQualifyingRemoved(k)
        /\ BytesAreSizesRemoved(k)
        /\ \A d \in DirNames : \A i \in 1..Len(heal_envs[k].dirs[d].files) :
              LET f == heal_envs[k].dirs[d].files[i]
              IN  (EndsWith(f.name, <<".log">>) /\ f.age <= 7 * Day) =>
                      /\ ~StartsWith(f.name, <<"tmp">>) => ~Removed(k, d, i)
                      /\ (StartsWith(f.name, <<"tmp">>) /\ f.isfile /\ f.removable
                          /\ Reached(heal_envs[k].dirs[d], i)) => Removed(k, d, i)

\* in /var/log the log of yesterday named tmpx.log and the log of 8 days
\* ago were deleted, the directory tmpdir and the log of yesterday named
\* new.log were kept, and 3 MiB were reported for the directory
C29_Witness ==
    \E k \in CleaningRuns :
        /\ heal_envs[k].dirs = HardDirs
        /\ Removed(k, <<"/var/log">>, 1) /\ Removed(k, <<"/var/log">>, 2)
        /\ ~Removed(k, <<"/var/log">>, 3) /\ ~Removed(k, <<"/var/log">>, 4)
        /\ heal.results[k].actions_taken[1] = [cleaned |-> <<"/var/log">>, bytes |-> 3 * MiB]

(***************************************************************************)
(* Properties of check_memory_usage.                                       *)
(***************************************************************************)
\* the runs of check_memory_usage so far where the usage could be read
MemoryRuns ==
    {k \in 1..Len(heal.results) :
        heal.tasks[k] = "check_memory_usage" /\ ~heal_envs[k].raises}

ProcessesOf(env) == {env.procs[i] : i \in 1..Len(env.procs)}

AllReadable(env) == \A p \in ProcessesOf(env) : p.readable

Smaller(a, b) == IF a < b THEN a ELSE b

\* C30: at or above 90% of memory the list check_memory_usage reports has
\* only processes above 10% of memory, at most 5 of them, in descending
\* order of memory percentage, and no process above 10% that it leaves out
\* uses more memory than one it reports; below 90% the task succeeds with
\* no action and reports no process.
C30_TopFiveAboveTenPercent ==
    \A k \in MemoryRuns :
        LET env == heal_envs[k]
            r == heal.results[k]
        IN  /\ env.percent < 90 =>
                  /\ r.success /\ r.action = "no_action_needed"
                  /\ "high_memory_processes" \notin DOMAIN r
                  /\ heal_effects[k] = <<>>
            /\ (env.percent >= 90 /\ AllReadable(env)) =>
                  /\ r.success /\ "high_memory_processes" \in DOMAIN r
                  /\ LET list == r.high_memory_processes
                         reported == {list[i] : i \in 1..Len(list)}
                         above == {p \in ProcessesOf(env) : p.memory_percent > 10}
                     IN  /\ reported \subseteq above
                         /\ Len(list) = Smaller(5, Cardinality(above))
                         /\ Cardinality(reported) = Len(list)
                         /\ \A i, j \in 1..Len(list) :
                               i < j => list[i].memory_percent >= list[j].memory_percent
                         /\ \A p \in above \ reported : \A q \in reported :
                               p.memory_percent <= q.memory_percent
            /\ (env.percent >= 90 /\ "high_memory_processes" \notin DOMAIN r) => ~r.success

\* at 90% with seven processes above 10%, the five largest were reported,
\* the largest first, and the two of 11% were left out
C30_Witness ==
    \E k \in MemoryRuns :
        /\ heal_envs[k].percent = 90
        /\ Len(heal_envs[k].procs) = 9
        /\ Len(heal.results[k].high_memory_processes) = 5
        /\ heal.results[k].high_memory_processes[1].memory_percent = 16
        /\ heal.results[k].high_memory_processes[5].memory_percent = 12

(***************************************************************************)
(* Properties of the report of run_healing_tasks.                          *)
(***************************************************************************)
\* the report the task results alone give
ReportOfResults ==
    [ success |-> \A k \in 1..Len(heal.results) : heal.results[k].success,
      tasks_completed |-> Len(heal.tasks),
      results |-> heal.results ]

\* C31: the report run_healing_tasks returns (success flag, results,
\* tasks_completed) is that of the task results alone, whether there is no
\* database, the healing log was stored, or its insert failed: storing the
\* log neither changes nor prevents the report.
C31_ReportIndependentOfSink ==
    Reported =>
        /\ report = ReportOfResults
        /\ Len(healing_logs) <= 1
        /\ healing_logs # <<>> =>
              /\ database # None
              /\ healing_logs[1].success = report.success
              /\ healing_logs[1].tasks_run = report.tasks_completed

\* with a database whose insert failed, the run reported its two task
\* results, one failed, and no log was stored
C31_Witness ==
    /\ Reported
    /\ database # None
    /\ healing_logs = <<>>
    /\ report.tasks_completed = 2
    /\ ~report.success
    /\ report.results[2].success

(***************************************************************************)
(* Properties of the value sanitize_input returns.                         *)
(***************************************************************************)
\* C32: the string sanitize_input returns holds none of the patterns
\* <script, javascript:, data: and vbscript:, in whatever letter case.
C32_NoPatternInAnyCase ==
    pure_call.fn = "sanitize_input" =>
        \A pattern \in { <<"<","s","c","r","i","p","t">>,
                         <<"j","a","v","a","s","c","r","i","p","t",":">>,
                         <<"d","a","t","a",":">>,
                         <<"v","b","s","c","r","i","p","t",":">> } :
            ~Contains(Lower(pure_call.ret), pattern)

(***************************************************************************)
(* app/core/security.py: SecurityMiddleware.check_rate_limit.  Times are   *)
(* whole ticks; the limit and the window stand for the 10 requests and 60  *)
(* seconds of the defaults.                                                *)
(***************************************************************************)
RateLimit == 2

RateWindow == 3

MaxRequests == 5

\* a limiter that records the request it denies
check_rate_limit_records_denied(storage, client_ip, limit, window, current_time) ==
    LET recent == SelectSeq(storage[client_ip], LAMBDA req_time : current_time - req_time < window)
    IN  [ storage |-> [storage EXCEPT ![client_ip] = Append(recent, current_time)],
          ret |-> Len(recent) < limit ]

\* check_rate_limit, lines 105-128: the requests of the client older than
\* the window are dropped, the call is denied when limit of them are left,
\* and recorded and allowed otherwise
check_rate_limit(storage, client_ip, limit, window, current_time) ==
    LET recent == SelectSeq(storage[client_ip], LAMBDA req_time : current_time - req_time < window)
    IN  IF Len(recent) >= limit
        THEN [ storage |-> [storage EXCEPT ![client_ip] = recent], ret |-> FALSE ]
        ELSE [ storage |-> [storage EXCEPT ![client_ip] = Append(recent, current_time)],
               ret |-> TRUE ]

\* a request of a client reaches the limiter, some ticks after the last one
CheckRateLimit ==
    /\ Len(rate_log) < MaxRequests
    /\ \E client_ip \in ClientIPs, elapsed \in {0, 1, RateWindow} :
          LET current_time == clock + elapsed
              out == check_rate_limit(rate_limit_storage, client_ip, RateLimit,
                                      RateWindow, current_time)
          IN  /\ clock' = current_time
              /\ rate_limit_storage' = out.storage
              /\ rate_log' = Append(rate_log, [ip |-> client_ip, time |-> current_time,
                                               ret |-> out.ret])
    /\ UNCHANGED <<dvars, hvars, pure_call>>

NextRate == CheckRateLimit

SpecRate == Init /\ [][NextRate]_vars

(***************************************************************************)
(* Properties of the rate limiter.                                         *)
(***************************************************************************)
\* the calls of a client that returned True
Allowed(ip) == {i \in 1..Len(rate_log) : rate_log[i].ip = ip /\ rate_log[i].ret}

\* the times of the allowed calls of a client, in call order
AllowedTimes(ip) ==
    LET own == SelectSeq(rate_log, LAMBDA c : c.ip = ip /\ c.ret)
    IN  [i \in 1..Len(own) |-> own[i].time]

IsSuffix(s, t) == Len(s) <= Len(t) /\ s = SubSeq(t, Len(t) - Len(s) + 1, Len(t))

\* C33: for each client IP, whatever the sequence of calls with
\* non-decreasing times, at most limit calls return True within any window
\* of window ticks; a denied call is not recorded; and the decision for a
\* client is that of its own earlier calls, whatever other clients did.
C33_AtMostLimitPerWindow ==
    \A ip \in ClientIPs :
        /\ \A start \in 0..clock :
              Cardinality({i \in Allowed(ip) :
                              /\ start <= rate_log[i].time
                              /\ rate_log[i].time < start + RateWindow}) <= RateLimit
        /\ IsSuffix(rate_limit_storage[ip], AllowedTimes(ip))
        /\ \A j \in 1..Len(rate_log) :
              rate_log[j].ip = ip =>
                  (rate_log[j].ret <=>
                      Cardinality({i \in Allowed(ip) :
                                      /\ i < j
                                      /\ rate_log[j].time - rate_log[i].time < RateWindow})
                          < RateLimit)

\* one client was allowed twice and denied at the same tick while the
\* other was allowed, and the first was allowed again once the window of
\* its first request had passed
C33_Witness ==
    /\ Len(rate_log) = 5
    /\ rate_log[1].ip = rate_log[2].ip /\ rate_log[3].ip = rate_log[1].ip
    /\ rate_log[1].ret /\ rate_log[2].ret /\ ~rate_log[3].ret
    /\ rate_log[4].ip # rate_log[1].ip /\ rate_log[4].ret
    /\ rate_log[4].time = rate_log[3].time
    /\ rate_log[5].ip = rate_log[1].ip /\ rate_log[5].ret
    /\ rate_log[5].time = rate_log[1].time + RateWindow

(***************************************************************************)
(* Properties of the handlers on an action that is no lifecycle action.    *)
(***************************************************************************)
\* C34: for an action that is neither restart nor deploy, the handler of
\* every backend issues the backend's restart command: no handler returns
\* without having issued a command.
C34_UnknownActionRestarts ==
    \A t \in Tasks :
        (HandlerReturned(t) /\ frame[t].deployment_type \notin {"restart", "deploy"}) =>
            /\ Cardinality(LifecycleCommands(t)) = 1
            /\ LastArgv(t) = ExpectedCommand(frame[t].branch, "restart", frame[t].app_name)

(***************************************************************************)
(* Properties of run_healing_tasks on a task name it does not know.        *)
(***************************************************************************)
KnownTasks ==
    {"restart_failed_services", "clean_disk_space", "check_memory_usage",
     "restart_hanging_processes"}

\* the positions of the task list that hold a name that is no task
UnknownPositions == {k \in 1..Len(heal.tasks) : heal.tasks[k] \notin KnownTasks}

\* C35: a task name run_healing_tasks does not recognize runs no
\* remediation and leaves, in its position of the report, a failed result
\* with the message Unknown task; the overall success is then false, and
\* the tasks after it run all the same.
C35_UnknownTaskFailsAlone ==
    /\ \A k \in UnknownPositions :
          k <= Len(heal.results) =>
              /\ heal.results[k] = [ task |-> heal.tasks[k], success |-> FALSE,
                                     message |-> <<"Unknown task">> ]
              /\ heal_effects[k] = <<>>
              /\ ~heal.overall_success
    /\ Reported =>
          /\ Len(report.results) = Len(heal.tasks)
          /\ report.tasks_completed = Len(heal.tasks)
          /\ \A k \in 1..Len(heal.tasks) : report.results[k].task = heal.tasks[k]
          /\ UnknownPositions # {} => ~report.success

\* the list was reboot, check_memory_usage: the report holds the failed
\* Unknown task result first and the successful memory check after it
C35_Witness ==
    /\ Reported
    /\ heal.tasks = <<"reboot", "check_memory_usage">>
    /\ report.results[1].message = <<"Unknown task">>
    /\ report.results[2].task = "check_memory_usage"
    /\ report.results[2].success
    /\ ~report.success

(***************************************************************************)
(* Properties of the deployments the chat layer requests.                  *)
(***************************************************************************)
\* process_command_text called deploy_application
ChatDeployment ==
    /\ pure_call.fn = "process_command_text"
    /\ pure_call.ret.op = "deploy_application"

\* no word "deploy" of the text has a word after it
NoWordAfterDeploy(words) ==
    \A i \in 1..Len(words) : Lower(words[i]) = kw_deploy => i = Len(words)

\* C36: every deployment process_command_text requests reaches
\* deploy_application with the action restart, whatever the text; and a
\* deploy command with no word after "deploy" targets the application
\* nginx.
C36_ChatDeploysRestartOnly ==
    ChatDeployment =>
        LET params == pure_call.ret.params
        IN  /\ params.deployment_type = "restart"
            /\ NoWordAfterDeploy(pure_call.args[2]) =>
                  params.app_name = <<"n","g","i","n","x">>

\* the text was the single word deploy: nginx was restarted
C36_Witness ==
    /\ ChatDeployment
    /\ pure_call.args[2] = << kw_deploy >>
    /\ pure_call.ret.params =
          [app_name |-> <<"n","g","i","n","x">>, deployment_type |-> "restart"]

(***************************************************************************)
(* app/core/config.py: validate_settings, a function of the attributes of  *)
(* the module's settings object.  A text is a sequence of characters; the  *)
(* result is True or the ValueError raised, with the errors it lists.      *)
(***************************************************************************)
\* a validation that raises at the first check that fails
validate_settings_first_error(settings) ==
    LET errors ==
            IF settings.SLACK_SIGNING_SECRET = <<>>
            THEN <<"SLACK_SIGNING_SECRET is missing">>
            ELSE IF settings.SLACK_BOT_TOKEN = <<>>
            THEN <<"SLACK_BOT_TOKEN is missing">>
            ELSE IF ~StartsWith(settings.SLACK_BOT_TOKEN, <<"x","o","x","b","-">>)
            THEN <<"SLACK_BOT_TOKEN must start with 'xoxb-'">>
            ELSE IF settings.MONGODB_URL = <<>> THEN <<"MONGODB_URL is missing">>
            ELSE IF settings.MONGODB_DATABASE = <<>>
            THEN <<"MONGODB_DATABASE is missing">>
            ELSE IF ~(1024 <= settings.PORT /\ settings.PORT <= 65535)
            THEN <<"PORT is not in valid range (1024-65535)">>
            ELSE <<>>
    IN  IF errors # <<>>
        THEN [raised |-> TRUE, class |-> "ValueError", errors |-> errors]
        ELSE [raised |-> FALSE, value |-> TRUE]

\* validate_settings, lines 76-103; the message of the port check stands
\* for the text that also quotes the port
validate_settings(settings) ==
    LET errors ==
            (IF settings.SLACK_SIGNING_SECRET = <<>>
             THEN <<"SLACK_SIGNING_SECRET is missing">> ELSE <<>>)
            \o (IF settings.SLACK_BOT_TOKEN = <<>>
                THEN <<"SLACK_BOT_TOKEN is missing">>
                ELSE IF ~StartsWith(settings.SLACK_BOT_TOKEN, <<"x","o","x","b","-">>)
                THEN <<"SLACK_BOT_TOKEN must start with 'xoxb-'">>
                ELSE <<>>)
            \o (IF settings.MONGODB_URL = <<>> THEN <<"MONGODB_URL is missing">> ELSE <<>>)
            \o (IF settings.MONGODB_DATABASE = <<>>
                THEN <<"MONGODB_DATABASE is missing">> ELSE <<>>)
            \o (IF ~(1024 <= settings.PORT /\ settings.PORT <= 65535)
                THEN <<"PORT is not in valid range (1024-65535)">> ELSE <<>>)
    IN  IF errors # <<>>
        THEN [raised |-> TRUE, class |-> "ValueError", errors |-> errors]
        ELSE [raised |-> FALSE, value |-> TRUE]

\* the settings tried: each text empty or not, a bot token, a user token
\* and a token cut before the dash, and the ports around both ends of the
\* range
SettingsTried ==
    [ SLACK_SIGNING_SECRET : { <<>>, <<"s","e","c","r","e","t">> },
      SLACK_BOT_TOKEN : { <<>>, <<"x","o","x","b","-","1">>, <<"x","o","x","p","-","1">>,
                          <<"x","o","x","b">> },
      MONGODB_URL : { <<>>, <<"mongodb://localhost:27017">> },
      MONGODB_DATABASE : { <<>>, <<"devops_chatbot">> },
      PORT : { 0 - 1, 80, 1023, 1024, 8000, 65535, 65536 } ]

ValidateSettings ==
    /\ pure_call = NoCall
    /\ \E settings \in SettingsTried :
          pure_call' = [fn |-> "validate_settings", args |-> <<settings>>,
                        ret |-> validate_settings(settings)]
    /\ UNCHANGED <<dvars, hvars, rvars>>

NextConfig == ValidateSettings

SpecConfig == Init /\ [][NextConfig]_vars

(***************************************************************************)
(* Properties of validate_settings.                                        *)
(***************************************************************************)
\* the checks the settings violate, each by the message that reports it
ViolatedChecks(s) ==
    (IF Len(s.SLACK_SIGNING_SECRET) = 0 THEN {"SLACK_SIGNING_SECRET is missing"} ELSE {})
    \cup (IF Len(s.SLACK_BOT_TOKEN) = 0 THEN {"SLACK_BOT_TOKEN is missing"} ELSE {})
    \cup (IF Len(s.SLACK_BOT_TOKEN) > 0
             /\ (Len(s.SLACK_BOT_TOKEN) < 5
                 \/ SubSeq(s.SLACK_BOT_TOKEN, 1, 5) # <<"x","o","x","b","-">>)
          THEN {"SLACK_BOT_TOKEN must start with 'xoxb-'"} ELSE {})
    \cup (IF Len(s.MONGODB_URL) = 0 THEN {"MONGODB_URL is missing"} ELSE {})
    \cup (IF Len(s.MONGODB_DATABASE) = 0 THEN {"MONGODB_DATABASE is missing"} ELSE {})
    \cup (IF s.PORT < 1024 \/ s.PORT > 65535
          THEN {"PORT is not in valid range (1024-65535)"} ELSE {})

\* C37: validate_settings returns True exactly when the signing secret is
\* non-empty, the bot token is non-empty and starts with xoxb-, the MongoDB
\* URL and database name are non-empty and the port lies in 1024..65535;
\* otherwise it raises one ValueError that lists every violated check.
C37_AllViolationsListed ==
    pure_call.fn = "validate_settings" =>
        LET violated == ViolatedChecks(pure_call.args[1])
            ret == pure_call.ret
        IN  /\ ret.raised <=> violated # {}
            /\ ~ret.raised => ret.value = TRUE
            /\ ret.raised =>
                  /\ ret.class = "ValueError"
                  /\ {ret.errors[i] : i \in 1..Len(ret.errors)} = violated
                  /\ Len(ret.errors) = Cardinality(violated)

\* with a user token, no MongoDB URL and port 80 the one ValueError lists
\* the three violations
C37_Witness ==
    /\ pure_call.fn = "validate_settings"
    /\ pure_call.args[1].SLACK_BOT_TOKEN = <<"x","o","x","p","-","1">>
    /\ pure_call.args[1].PORT = 80
    /\ pure_call.ret.raised
    /\ pure_call.ret.errors =
          << "SLACK_BOT_TOKEN must start with 'xoxb-'", "MONGODB_URL is missing",
             "PORT is not in valid range (1024-65535)" >>

=============================================================================
